---- MODULE Spec2Model ----
(***************************************************************************)
(* A model of the extraction and traffic-shaping pipeline of the web       *)
(* scraper in backend/scraper.py: RetryHandler, RateLimiter, ProxyManager, *)
(* the duplicate check, the pagination planner, WebScraper.run with both   *)
(* scraping modes and the JavaScript engine, and the containers of         *)
(* scrape_items in both trees; and of the job record of backend/app.py     *)
(* between the worker thread and job_status; the field reads of           *)
(* scrape_items under both selector dialects, get_page_content with        *)
(* make_request beneath it, the /api/scrape and /api/scrape-async          *)
(* handlers, and the run loop under fairness of its returning steps.       *)
(* Each component has its own specification over the shared variables;     *)
(* the variables of the other components keep their initial value.         *)
(***************************************************************************)
EXTENDS Integers, Sequences, FiniteSets, TLC

VARIABLES
    \* RetryHandler (scraper.py 105-128)
    max_retries,          \* self.max_retries
    base_delay,           \* self.base_delay
    attempt,              \* the loop variable of execute: attempts made so far
    last_exception,       \* the local last_exception
    opLog,                \* what each invocation of func did, in order
    sleeps,               \* the argument of each time.sleep of execute, in order
    outcome,              \* how execute ended
    \* RateLimiter (scraper.py 84-102)
    min_delay,            \* self.min_delay, in clock ticks
    last_request_time,    \* self.last_request_time
    request_times,        \* self.request_times, a deque of maxlen 10
    now,                  \* the clock read by time.time()
    waitSleeps,           \* per wait(): the argument of its time.sleep, 0 if none
    \* ProxyManager (scraper.py 148-195)
    proxies,              \* self.proxies
    proxy_health,         \* self.proxy_health
    current_proxy_index,  \* self.current_proxy_index
    proxyLog,             \* what each get_proxy() returned, in order
    healthiest,           \* what the last get_healthiest() returned
    \* WebScraper.is_duplicate (scraper.py 520-533)
    incremental,          \* self.incremental
    data_hash,            \* self.data_hash
    dupLog,               \* each is_duplicate call: its argument and its result
    \* WebScraper.get_pagination_urls (scraper.py 496-518)
    base_url,             \* the argument base_url, a string of tokens
    pagination_config,    \* self.pagination_config
    urls,                 \* the list get_pagination_urls returned
    planned,              \* whether get_pagination_urls has been called
    \* WebScraper.run under run_scraper (scraper.py 377-414, 535-830, 957-1041;
    \* app.py 195-225)
    jobUrls,              \* the list urls of run()
    jobIdx,               \* how many of them the loop of run() has finished
    jobPhase,             \* where the worker is: "start", "setup", "loop", "items"
                          \* (in scrape_items), "release", "exit", "done"
    containers,           \* the containers found on the page being scraped
    contIdx,              \* how many of them scrape_items has finished
    items,                \* the local list items of scrape_items
    results,              \* self.results
    stats,                \* self.stats
    clock,                \* the clock read by datetime.now()
    field_selectors,      \* the declared fields: fieldSelectors, or selectors
    item_mode,            \* config['itemScraping']['enabled']
    progress_callback,    \* whether self.progress_callback is set
    progressLog,          \* the snapshots handed to the callback, in order
    fetchLog,             \* the URLs handed to scrape_page, in order, and what
                          \* the fetch and the parsing of each came to
    use_js_rendering,     \* self.use_js_rendering
    js_engine,            \* self.js_engine
    acquired,             \* the handles init_js_engine has set
    closed,               \* the handles close_js_engine has closed
    closeFails,           \* the handles whose close raises
    jobError,             \* where the exception leaving run() was raised, or None
    jobStatus,            \* active_jobs[job_id]['status']
    jobResults,           \* active_jobs[job_id].get('results')
    \* The job record between worker and poller (app.py 169-264)
    job,                  \* active_jobs[job_id]
    workerPc,             \* where run_scraper is: "start", "running", "done"
    emitted,              \* how many URLs run() has told the progress callback
    jobTotal,             \* len(urls) of the job
    pollPc,               \* how many fields job_status has read of the record
    view,                 \* what job_status has read so far
    polls,                \* how many polls have begun
    history,              \* every value the record has had
    \* The containers of scrape_items in both trees (scraper.py 570-626, 657-674)
    dom,                  \* the elements of the page, in document order
    container_selector,   \* itemScraping.containerSelector, of type css
    containers_bs4,       \* the elements soup.select found, by their place
    containers_lxml,      \* the elements tree.xpath found, cut or padded
    located,              \* whether the containers have been located
    fieldReads,           \* per container read: its index and the element read
    \* The fields of scrape_items read in the elements (scraper.py 570-716)
    container_type,       \* itemScraping.containerType
    item_fields,          \* itemScraping.fieldSelectors, with their attribute
    readLog,              \* each field read: the container's index, the field,
                          \* the element it was read in and the value it gave
    item_list,            \* the local list items of scrape_items
    \* The request handlers scrape and scrape_async (app.py 81-242)
    route,                \* which endpoint the configuration was posted to
    request,              \* request.json, as far as the handlers look at it
    registry,             \* active_jobs[job_id]['status'], <<>> while absent
    statusLog,            \* every status the registry has held, in order
    response,             \* the HTTP status of the handler's response
    submitPc,             \* where the handler, and then the worker, is
    polled,               \* the status each call of job_status answered with
    \* WebScraper.get_page_content (scraper.py 416-444)
    fetchPc,              \* where the call is: "call", "render", "plain", "end"
    callLog,              \* the calls make_request has made, in order
    fetches,              \* one record per call of get_page_content that ended
    fetchMark             \* the proxy cursor and the number of wait() calls
                          \* when the plain path of the call began

retryVars == <<max_retries, base_delay, attempt, last_exception, opLog, sleeps, outcome>>
rateVars  == <<min_delay, last_request_time, request_times, now, waitSleeps>>
proxyVars == <<proxies, proxy_health, current_proxy_index, proxyLog, healthiest>>
dedupVars == <<incremental, data_hash, dupLog>>
pageVars  == <<base_url, pagination_config, urls, planned>>
jobVars   == <<jobUrls, jobIdx, jobPhase, containers, contIdx, items, results, stats,
               clock, field_selectors, item_mode, progress_callback, progressLog,
               fetchLog, use_js_rendering, js_engine, acquired, closed, closeFails,
               jobError, jobStatus, jobResults>>

asyncVars == <<job, workerPc, emitted, jobTotal, pollPc, view, polls, history>>
alignVars == <<dom, container_selector, containers_bs4, containers_lxml, located,
               fieldReads>>
fieldVars == <<container_type, item_fields, readLog, item_list>>
submitVars == <<route, request, registry, statusLog, response, submitPc, polled>>
fetchVars == <<fetchPc, callLog, fetches, fetchMark>>
moreVars == <<fieldVars, submitVars, fetchVars>>

vars == <<retryVars, rateVars, proxyVars, dedupVars, pageVars, jobVars, asyncVars,
          alignVars, moreVars>>

\* What a component leaves alone: the variables of the others.
notRetry == <<rateVars, proxyVars, dedupVars, pageVars, jobVars, asyncVars, alignVars, moreVars>>
notRate  == <<retryVars, proxyVars, dedupVars, pageVars, jobVars, asyncVars, alignVars, moreVars>>
notProxy == <<retryVars, rateVars, dedupVars, pageVars, jobVars, asyncVars, alignVars, moreVars>>
notDedup == <<retryVars, rateVars, proxyVars, pageVars, jobVars, asyncVars, alignVars, moreVars>>
notPage  == <<retryVars, rateVars, proxyVars, dedupVars, jobVars, asyncVars, alignVars, moreVars>>
notJob   == <<retryVars, rateVars, proxyVars, pageVars, asyncVars, alignVars, moreVars>>
notAsync == <<retryVars, rateVars, proxyVars, dedupVars, pageVars, jobVars, alignVars, moreVars>>
notAlign == <<retryVars, rateVars, proxyVars, dedupVars, pageVars, jobVars, asyncVars, moreVars>>

\* Python's None, where it stands among strings.
None == "None"

(***************************************************************************)
(* The state every component is in when its specification is not the one   *)
(* being run.                                                              *)
(***************************************************************************)
RetryIdle ==
    /\ max_retries = 0
    /\ base_delay = 0
    /\ attempt = 0
    /\ last_exception = None
    /\ opLog = <<>>
    /\ sleeps = <<>>
    /\ outcome = [kind |-> "idle", val |-> None, err |-> None]

RateIdle ==
    /\ min_delay = 0
    /\ last_request_time = 0
    /\ request_times = <<>>
    /\ now = 0
    /\ waitSleeps = <<>>

ProxyIdle ==
    /\ proxies = <<>>
    /\ proxy_health = <<>>
    /\ current_proxy_index = 0
    /\ proxyLog = <<>>
    /\ healthiest = None

DedupIdle ==
    /\ incremental = FALSE
    /\ data_hash = {}
    /\ dupLog = <<>>

PageIdle ==
    /\ base_url = <<>>
    /\ pagination_config = <<>>
    /\ urls = <<>>
    /\ planned = FALSE

\* The job idle, but for its rendering backend.
JobIdleButEngine ==
    /\ jobUrls = <<>>
    /\ jobIdx = 0
    /\ jobPhase = "idle"
    /\ containers = <<>>
    /\ contIdx = 0
    /\ items = <<>>
    /\ results = <<>>
    /\ stats = [total_pages |-> 0, successful_pages |-> 0, failed_pages |-> 0,
                total_items |-> 0, end_time |-> <<>>]
    /\ clock = 0
    /\ field_selectors = <<>>
    /\ item_mode = FALSE
    /\ progress_callback = FALSE
    /\ progressLog = <<>>
    /\ fetchLog = <<>>
    /\ closed = {}
    /\ closeFails = {}
    /\ jobError = None
    /\ jobStatus = "idle"
    /\ jobResults = <<>>

JobIdle ==
    /\ JobIdleButEngine
    /\ use_js_rendering = FALSE
    /\ js_engine = "playwright"
    /\ acquired = {}

AsyncIdle ==
    /\ job = <<>>
    /\ workerPc = "idle"
    /\ emitted = 0
    /\ jobTotal = 0
    /\ pollPc = 0
    /\ view = <<>>
    /\ polls = 0
    /\ history = {}

\* The containers idle, but for the container selector.
AlignIdleButSelector ==
    /\ dom = <<>>
    /\ containers_bs4 = <<>>
    /\ containers_lxml = <<>>
    /\ located = FALSE
    /\ fieldReads = <<>>

AlignIdle ==
    /\ AlignIdleButSelector
    /\ container_selector = <<>>

FieldIdle ==
    /\ container_type = "css"
    /\ item_fields = <<>>
    /\ readLog = <<>>
    /\ item_list = <<>>

SubmitIdle ==
    /\ route = "idle"
    /\ request = <<>>
    /\ registry = <<>>
    /\ statusLog = <<>>
    /\ response = 0
    /\ submitPc = "idle"
    /\ polled = <<>>

FetchIdle ==
    /\ fetchPc = "idle"
    /\ callLog = <<>>
    /\ fetches = <<>>
    /\ fetchMark = <<>>

\* The components added last, all idle.
MoreIdle == FieldIdle /\ SubmitIdle /\ FetchIdle

(***************************************************************************)
(* RetryHandler                                                            *)
(***************************************************************************)
\* The largest max_retries a configuration is given here.
MaxRetriesBound == 3
\* The largest base_delay a configuration is given here.
MaxBaseDelay == 2

\* What func can raise and what it can return.
OpErrors == {"Timeout", "HTTPError"}
OpValues == {"html1", "html2"}

RECURSIVE Pow2(_)
Pow2(n) == IF n <= 0 THEN 1 ELSE 2 * Pow2(n - 1)

\* RetryHandler.__init__; execute starts with last_exception = None and the
\* loop variable at the first element of range(max_retries).
RetryInit ==
    /\ max_retries \in 0..MaxRetriesBound
    /\ base_delay \in 1..MaxBaseDelay
    /\ attempt = 0
    /\ last_exception = None
    /\ opLog = <<>>
    /\ sleeps = <<>>
    /\ outcome = [kind |-> "running", val |-> None, err |-> None]

Running == outcome.kind = "running"

\* The delay slept after the failure of attempt a (line 122).
RetryDelay(base, a) == base * Pow2(a)

\* SleepsAfter with a sleep after the failure of the last attempt as well.
SleepsAfterEvery(a, mr) == a < mr

\* Whether the failure of attempt a is followed by a sleep (line 121).
SleepsAfter(a, mr) == a < mr - 1

\* AttemptReturns with the `return` of line 118 lost: the value is dropped and
\* the loop goes on to the next attempt.
AttemptReturnsNoExit(v) ==
    /\ Running
    /\ attempt < max_retries
    /\ opLog' = Append(opLog, [ok |-> TRUE, val |-> v, err |-> None])
    /\ attempt' = attempt + 1
    /\ UNCHANGED <<max_retries, base_delay, last_exception, sleeps, outcome>>

\* One pass of the loop body in which func returns v: line 118 returns it.
AttemptReturns(v) ==
    /\ Running
    /\ attempt < max_retries
    /\ opLog' = Append(opLog, [ok |-> TRUE, val |-> v, err |-> None])
    /\ outcome' = [kind |-> "return", val |-> v, err |-> None]
    /\ UNCHANGED <<max_retries, base_delay, attempt, last_exception, sleeps>>

\* One pass of the loop body in which func raises e: lines 119-126.
AttemptRaises(e) ==
    /\ Running
    /\ attempt < max_retries
    /\ opLog' = Append(opLog, [ok |-> FALSE, val |-> None, err |-> e])
    /\ last_exception' = e
    /\ sleeps' = IF SleepsAfter(attempt, max_retries)
                 THEN Append(sleeps, RetryDelay(base_delay, attempt))
                 ELSE sleeps
    /\ attempt' = attempt + 1
    /\ UNCHANGED <<max_retries, base_delay, outcome>>

\* What `raise last_exception` raises (line 128): the exception, or, when
\* last_exception is still None, the TypeError Python raises for `raise None`.
Raised(exc) == IF exc = None THEN "TypeError" ELSE exc

\* range(max_retries) is used up: line 128.
RaiseLast ==
    /\ Running
    /\ attempt >= max_retries
    /\ outcome' = [kind |-> "raise", val |-> None, err |-> Raised(last_exception)]
    /\ UNCHANGED <<max_retries, base_delay, attempt, last_exception, opLog, sleeps>>

RetryNext ==
    \/ \E v \in OpValues : AttemptReturns(v) /\ UNCHANGED notRetry
    \/ \E e \in OpErrors : AttemptRaises(e) /\ UNCHANGED notRetry
    \/ RaiseLast /\ UNCHANGED notRetry

InitRetry == RetryInit /\ RateIdle /\ ProxyIdle /\ DedupIdle /\ PageIdle /\ JobIdle /\ AsyncIdle /\ AlignIdle
    /\ MoreIdle

SpecRetry == InitRetry /\ [][RetryNext]_vars

ExecuteEnded == outcome.kind \in {"return", "raise"}
AllFailed == \A i \in 1..Len(opLog) : ~opLog[i].ok

\* C1: when func fails on every call, execute invokes it exactly max_retries
\* times, then raises the last error func raised, and returns no value.
C1_ExhaustedRaisesLastError ==
    (ExecuteEnded /\ AllFailed) =>
        /\ Len(opLog) = max_retries
        /\ outcome.kind = "raise"
        /\ Len(opLog) >= 1
        /\ outcome.err = opLog[Len(opLog)].err

\* C1, the part of it that holds of the code: with max_retries >= 1 the claim
\* is as stated; with max_retries = 0 func is never invoked and what is
\* raised is the TypeError of `raise None`.
C1_ExhaustedFromOneAttempt ==
    (ExecuteEnded /\ AllFailed) =>
        /\ Len(opLog) = max_retries
        /\ outcome.kind = "raise"
        /\ IF max_retries >= 1
           THEN outcome.err = opLog[Len(opLog)].err
           ELSE outcome.err = "TypeError"

\* C2: when func fails on attempts 1..k-1 and succeeds on attempt k, execute
\* has invoked it exactly k times, returns the value of attempt k, and has
\* slept only after the k-1 failures: nothing is invoked or slept after the
\* success.
C2_SuccessAtK ==
    \A k \in 1..Len(opLog) :
        (opLog[k].ok /\ \A i \in 1..(k - 1) : ~opLog[i].ok) =>
            /\ k <= max_retries
            /\ Len(opLog) = k
            /\ outcome.kind = "return"
            /\ outcome.val = opLog[k].val
            /\ Len(sleeps) = k - 1

\* func failed twice and succeeded on the third attempt.
C2_Witness ==
    /\ outcome.kind = "return"
    /\ Len(opLog) = 3
    /\ ~opLog[1].ok /\ ~opLog[2].ok /\ opLog[3].ok

\* The failures among the invocations made so far.
Failures == Cardinality({i \in DOMAIN opLog : ~opLog[i].ok})

\* C26: execute sleeps only between attempts: the failure of attempt i
\* (counted from 0) with i < max_retries - 1 is followed by a sleep of
\* base_delay * 2^i, so the sleeps are base, 2*base, 4*base, ..., one per
\* failure but none after the failure of the last attempt: an operation that
\* always fails causes max_retries - 1 sleeps.
C26_SleepsBetweenAttempts ==
    /\ Len(sleeps) = IF Failures < max_retries THEN Failures
                                               ELSE IF max_retries = 0 THEN 0 ELSE max_retries - 1
    /\ \A i \in DOMAIN sleeps : sleeps[i] = base_delay * Pow2(i - 1)
    /\ (outcome.kind = "raise" /\ max_retries >= 1) => Len(sleeps) = max_retries - 1

\* Three attempts that all failed: two sleeps, of base and of 2 * base, and
\* none after the third failure.
C26_Witness ==
    /\ max_retries = 3
    /\ outcome.kind = "raise"
    /\ Failures = 3
    /\ sleeps = <<base_delay, 2 * base_delay>>

(***************************************************************************)
(* RateLimiter.  Time is counted in clock ticks, six to the second, so     *)
(* that 1.0 / max_requests_per_second is a whole number of ticks for the   *)
(* rates below.                                                            *)
(***************************************************************************)
\* The rates max_requests_per_second a limiter is built with.
Rates == {1, 2, 3, 6}
\* The clock stops here.
MaxClock == 16
\* The most calls of wait() on one limiter.
MaxWaits == 3
\* The most ticks time.sleep oversleeps, or that pass between the two clock
\* reads of one wait().
MaxOversleep == 1
\* deque(maxlen=10)
DequeMaxLen == 10

\* self.min_delay = 1.0 / max_requests_per_second (line 89), in ticks.
MinDelayOf(r) == 6 \div r

\* RateLimiter.__init__; the clock shows a positive time, as time.time() does.
RateInit ==
    /\ min_delay \in {MinDelayOf(r) : r \in Rates}
    /\ last_request_time = 0
    /\ request_times = <<>>
    /\ now = 1
    /\ waitSleeps = <<>>

\* SleepFor with the elapsed time slept instead of what is left of min_delay.
SleepForElapsed(current_time, last, md) ==
    IF last > 0 /\ current_time - last < md THEN current_time - last ELSE 0

\* What wait() hands to time.sleep (lines 96-99); 0 stands for no sleep.
SleepFor(current_time, last, md) ==
    IF last > 0
    THEN LET elapsed == current_time - last
         IN  IF elapsed < md THEN md - elapsed ELSE 0
    ELSE 0

\* deque.append on a deque of maxlen DequeMaxLen.
DequeAppend(dq, x) ==
    LET s == Append(dq, x)
    IN  IF Len(s) > DequeMaxLen THEN Tail(s) ELSE s

\* Time passes between two calls.
Tick ==
    /\ now < MaxClock
    /\ now' = now + 1
    /\ UNCHANGED <<min_delay, last_request_time, request_times, waitSleeps>>

\* RateLimiter.wait(): the clock is read (line 95), the sleep, if any, lasts at
\* least as long as asked, and the clock is read again (line 101).
wait(over) ==
    LET d == SleepFor(now, last_request_time, min_delay)
        t == now + d + over
    IN  /\ Len(waitSleeps) < MaxWaits
        /\ t <= MaxClock
        /\ now' = t
        /\ last_request_time' = t
        /\ request_times' = DequeAppend(request_times, t)
        /\ waitSleeps' = Append(waitSleeps, d)
        /\ UNCHANGED min_delay

RateNext ==
    \/ Tick /\ UNCHANGED notRate
    \/ \E over \in 0..MaxOversleep : wait(over) /\ UNCHANGED notRate

InitRate == RateInit /\ RetryIdle /\ ProxyIdle /\ DedupIdle /\ PageIdle /\ JobIdle /\ AsyncIdle /\ AlignIdle
    /\ MoreIdle

SpecRate == InitRate /\ [][RateNext]_vars

\* C3: the first wait() does not sleep, and every later wait() takes its
\* closing timestamp, with which it returns, at least min_delay = 1/r after
\* the one the previous wait() returned with.
C3_WaitSpacing ==
    /\ Len(waitSleeps) >= 1 => waitSleeps[1] = 0
    /\ Len(request_times) = Len(waitSleeps)
    /\ \A i \in 2..Len(request_times) :
           request_times[i] - request_times[i - 1] >= min_delay

\* A second wait() that came too early and had to sleep.
C3_Witness ==
    /\ Len(waitSleeps) >= 2
    /\ waitSleeps[1] = 0
    /\ waitSleeps[2] > 0

(***************************************************************************)
(* ProxyManager                                                            *)
(***************************************************************************)
\* The proxy strings a configuration lists.
ProxyNames == {"p1", "p2"}
\* The longest list of proxies; a list may name a proxy twice.
MaxProxies == 3
\* The most calls of get_proxy().
MaxProxyCalls == 4
\* The most successes, and the most failures, marked on one proxy.
MaxMarks == 3

\* Python's None, where it stands among the dicts get_proxy returns.
NoProxy == <<>>

SeqsUpTo(S, n) == UNION {[1..k -> S] : k \in 0..n}
Range(f) == {f[i] : i \in DOMAIN f}

\* ProxyManager.__init__
ProxyInit ==
    /\ proxies \in SeqsUpTo(ProxyNames, MaxProxies)
    /\ proxy_health = [p \in Range(proxies) |->
                          [success |-> 0, failures |-> 0, last_check |-> None]]
    /\ current_proxy_index = 0
    /\ proxyLog = <<>>
    /\ healthiest = None

\* self.current_proxy_index after get_proxy() (lines 159-163).
NextIndex(ps, idx) ==
    IF Len(ps) = 0 THEN idx ELSE (idx + 1) % Len(ps)

\* GetProxyReturn with the proxy read after the index has advanced.
GetProxyReturnAfterAdvance(ps, idx) ==
    IF Len(ps) = 0
    THEN NoProxy
    ELSE [http |-> ps[NextIndex(ps, idx) + 1], https |-> ps[NextIndex(ps, idx) + 1]]

\* What get_proxy() returns (lines 159-168); Python indexes from 0.
GetProxyReturn(ps, idx) ==
    IF Len(ps) = 0
    THEN NoProxy
    ELSE [http |-> ps[idx + 1], https |-> ps[idx + 1]]

\* ProxyManager.get_proxy()
get_proxy ==
    /\ Len(proxyLog) < MaxProxyCalls
    /\ proxyLog' = Append(proxyLog, GetProxyReturn(proxies, current_proxy_index))
    /\ current_proxy_index' = NextIndex(proxies, current_proxy_index)
    /\ UNCHANGED <<proxies, proxy_health, healthiest>>

\* ProxyManager.mark_success(proxy)
mark_success(proxy) ==
    /\ proxy \in DOMAIN proxy_health => proxy_health[proxy].success < MaxMarks
    /\ proxy_health' = IF proxy \in DOMAIN proxy_health
                       THEN [proxy_health EXCEPT ![proxy].success = @ + 1]
                       ELSE proxy_health
    /\ UNCHANGED <<proxies, current_proxy_index, proxyLog, healthiest>>

\* ProxyManager.mark_failure(proxy)
mark_failure(proxy) ==
    /\ proxy \in DOMAIN proxy_health => proxy_health[proxy].failures < MaxMarks
    /\ proxy_health' = IF proxy \in DOMAIN proxy_health
                       THEN [proxy_health EXCEPT ![proxy].failures = @ + 1]
                       ELSE proxy_health
    /\ UNCHANGED <<proxies, current_proxy_index, proxyLog, healthiest>>

\* The score of line 190.
Score(health) == health.success - health.failures * 2

\* float('-inf') is the empty tuple here and a score n the tuple <<n>>.
NegInf == <<>>

\* ScoreBeats with >= for >.
ScoreBeatsOrTies(score, best_score) ==
    best_score = NegInf \/ score >= best_score[1]

\* score > best_score (line 191)
ScoreBeats(score, best_score) ==
    best_score = NegInf \/ score > best_score[1]

\* The loop of lines 188-193, from the i-th proxy on.
RECURSIVE HealthLoop(_, _, _, _, _)
HealthLoop(ps, health, i, best_proxy, best_score) ==
    IF i > Len(ps)
    THEN best_proxy
    ELSE LET score == Score(health[ps[i]])
         IN  IF ScoreBeats(score, best_score)
             THEN HealthLoop(ps, health, i + 1, ps[i], <<score>>)
             ELSE HealthLoop(ps, health, i + 1, best_proxy, best_score)

\* What get_healthiest() returns (lines 182-195).
get_healthiest(ps, health) ==
    IF Len(ps) = 0 THEN None ELSE HealthLoop(ps, health, 1, None, NegInf)

\* ProxyManager.get_healthiest()
GetHealthiestCall ==
    /\ healthiest' = get_healthiest(proxies, proxy_health)
    /\ UNCHANGED <<proxies, proxy_health, current_proxy_index, proxyLog>>

ProxyNext ==
    \/ get_proxy /\ UNCHANGED notProxy
    \/ \E p \in ProxyNames : mark_success(p) /\ UNCHANGED notProxy
    \/ \E p \in ProxyNames : mark_failure(p) /\ UNCHANGED notProxy
    \/ GetHealthiestCall /\ UNCHANGED notProxy

InitProxy == ProxyInit /\ RetryIdle /\ RateIdle /\ DedupIdle /\ PageIdle /\ JobIdle /\ AsyncIdle /\ AlignIdle
    /\ MoreIdle

SpecProxy == InitProxy /\ [][ProxyNext]_vars

\* C4: with n >= 1 proxies the j-th get_proxy() returns proxies[(j-1) mod n]
\* (counted from 0) and the index stays in 0..n-1; with no proxy every call
\* returns None and nothing changes.
C4_RoundRobin ==
    LET n == Len(proxies)
    IN  IF n >= 1
        THEN /\ current_proxy_index \in 0..(n - 1)
             /\ \A j \in 1..Len(proxyLog) :
                    proxyLog[j] = [http  |-> proxies[((j - 1) % n) + 1],
                                   https |-> proxies[((j - 1) % n) + 1]]
        ELSE /\ current_proxy_index = 0
             /\ proxy_health = <<>>
             /\ \A j \in 1..Len(proxyLog) : proxyLog[j] = NoProxy

\* Two different proxies, and a third call that has come round to the first.
C4_Witness ==
    /\ Len(proxies) = 2
    /\ proxies[1] # proxies[2]
    /\ Len(proxyLog) = 3
    /\ proxyLog[3] = proxyLog[1]
    /\ current_proxy_index = 1

ScoreAt(i) == Score(proxy_health[proxies[i]])

\* C5: whatever has been marked, get_healthiest() returns a proxy of maximal
\* score success - 2 * failures, the first such in the order of the pool,
\* and None when the pool is empty.
C5_Healthiest ==
    LET r == get_healthiest(proxies, proxy_health)
    IN  /\ healthiest \in {None} \cup Range(proxies)
        /\ IF Len(proxies) = 0
           THEN r = None
           ELSE \E i \in 1..Len(proxies) :
                    /\ r = proxies[i]
                    /\ \A j \in 1..Len(proxies) : ScoreAt(j) <= ScoreAt(i)
                    /\ \A j \in 1..(i - 1) : ScoreAt(j) < ScoreAt(i)

\* Two different proxies tie at the top after marks on both, and the call
\* has returned the first of them.
C5_Witness ==
    /\ Len(proxies) >= 2
    /\ proxies[1] # proxies[2]
    /\ proxy_health[proxies[1]].success = 2
    /\ proxy_health[proxies[1]].failures = 1
    /\ ScoreAt(2) = ScoreAt(1)
    /\ proxy_health[proxies[2]].failures = 0
    /\ healthiest = proxies[1]
    /\ healthiest = get_healthiest(proxies, proxy_health)

(***************************************************************************)
(* WebScraper.is_duplicate.  A dict is the sequence of its <<key, value>>  *)
(* pairs in insertion order.                                               *)
(***************************************************************************)
\* The keys of the records, in the order in which Python sorts the strings.
SortedKeys == <<"item_index", "scraped_at", "title", "url">>
\* The keys of the records handed to is_duplicate directly.
DedupKeys == {"title", "url"}
\* The values of the records.
RecValues == {"x", "y"}
\* The most calls of is_duplicate.
MaxDedupCalls == 3

\* The dicts over these keys and values: every insertion order of every
\* non-empty set of keys.
Dicts ==
    {d \in UNION {[1..k -> DedupKeys \X RecValues] : k \in 1..Cardinality(DedupKeys)} :
        \A i, j \in DOMAIN d : i # j => d[i][1] # d[j][1]}

KeysOf(data) == {data[i][1] : i \in DOMAIN data}
ValueOf(data, k) == data[CHOOSE i \in DOMAIN data : data[i][1] = k][2]

\* json_dumps without sort_keys: the pairs in insertion order.
json_dumps_unsorted(data) == data

\* json.dumps(data, sort_keys=True) (line 526): the pairs in the order of keys.
json_dumps(data) ==
    LET ks == SelectSeq(SortedKeys, LAMBDA k : k \in KeysOf(data))
    IN  [i \in 1..Len(ks) |-> <<ks[i], ValueOf(data, ks[i])>>]

\* hashlib.md5(...).hexdigest() (line 527), taken to be free of collisions:
\* different strings have different digests.
md5(str) == <<"md5", str>>

\* is_duplicate without the test of self.incremental of line 522.
is_duplicate_unguarded(inc, hashes, data) ==
    LET data_hash_ == md5(json_dumps(data))
    IN  IF data_hash_ \in hashes
        THEN [result |-> TRUE, hashes |-> hashes]
        ELSE [result |-> FALSE, hashes |-> hashes \cup {data_hash_}]

\* is_duplicate (lines 520-533): what it returns and self.data_hash after it.
is_duplicate(inc, hashes, data) ==
    IF ~inc
    THEN [result |-> FALSE, hashes |-> hashes]
    ELSE LET data_hash_ == md5(json_dumps(data))
         IN  IF data_hash_ \in hashes
             THEN [result |-> TRUE, hashes |-> hashes]
             ELSE [result |-> FALSE, hashes |-> hashes \cup {data_hash_}]

\* WebScraper.__init__, lines 287-288
DedupInit ==
    /\ incremental \in BOOLEAN
    /\ data_hash = {}
    /\ dupLog = <<>>

\* A call of is_duplicate(data)
IsDuplicateCall(data) ==
    LET r == is_duplicate(incremental, data_hash, data)
    IN  /\ Len(dupLog) < MaxDedupCalls
        /\ dupLog' = Append(dupLog, [data |-> data, result |-> r.result])
        /\ data_hash' = r.hashes
        /\ UNCHANGED incremental

DedupNext ==
    \E data \in Dicts : IsDuplicateCall(data) /\ UNCHANGED notDedup

InitDedup == DedupInit /\ RetryIdle /\ RateIdle /\ ProxyIdle /\ PageIdle /\ JobIdle /\ AsyncIdle /\ AlignIdle
    /\ MoreIdle

SpecDedup == InitDedup /\ [][DedupNext]_vars

PairSet(data) == Range(data)

\* C6: in incremental mode a call of is_duplicate returns true exactly when
\* an earlier call of this job was given the same set of key/value pairs,
\* in whatever order of insertion: the same record twice gives (false, true)
\* and so does a record followed by a reordering of it.
C6_DuplicateBySetOfPairs ==
    incremental =>
        \A i \in 1..Len(dupLog) :
            dupLog[i].result =
                (\E j \in 1..(i - 1) : PairSet(dupLog[j].data) = PairSet(dupLog[i].data))

\* A record, then the same pairs inserted in the other order: (false, true).
C6_Witness ==
    /\ incremental
    /\ Len(dupLog) = 2
    /\ dupLog[1].data # dupLog[2].data
    /\ PairSet(dupLog[1].data) = PairSet(dupLog[2].data)
    /\ ~dupLog[1].result
    /\ dupLog[2].result

\* C8: with incremental mode off is_duplicate returns false for every
\* record and the set of hashes stays empty.
C8_InactiveWhenNotIncremental ==
    ~incremental =>
        /\ data_hash = {}
        /\ \A i \in 1..Len(dupLog) : ~dupLog[i].result

\* Incremental mode off and the same record passed three times.
C8_Witness ==
    /\ ~incremental
    /\ Len(dupLog) = 3
    /\ dupLog[1].data = dupLog[2].data
    /\ dupLog[2].data = dupLog[3].data
    /\ ~dupLog[3].result

(***************************************************************************)
(* WebScraper.get_pagination_urls.  A string is the sequence of its        *)
(* tokens: "://", "/", "?", "&", "=", "#" and the words between them.      *)
(***************************************************************************)
\* The largest page number of a pagination configuration.
MaxPage == 3
\* The most parameters in the query string of a base URL.
MaxQueryParams == 2

\* The empty dict {} of config.get('pagination', {}).
NoConfig == <<>>

\* The parameters a base URL is written with: x=1, x= (a blank value),
\* flag (no "="), page=7 and y=%20 (an escaped blank).
QueryParams ==
    {<<"x", "=", "1">>, <<"x", "=">>, <<"flag">>, <<"page", "=", "7">>, <<"y", "=", "%20">>}

\* The paths a base URL is written with: none, /a and /a/.
Paths == {<<>>, <<"/", "a">>, <<"/", "a", "/">>}

RECURSIVE Join(_, _)
\* sep.join(parts)
Join(parts, sep) ==
    IF parts = <<>> THEN <<>>
    ELSE IF Len(parts) = 1 THEN parts[1]
    ELSE parts[1] \o <<sep>> \o Join(Tail(parts), sep)

\* The base URLs: https://x, a path, and possibly "?" and a query string.
BaseUrls ==
    {<<"https", "://", "x">> \o path : path \in Paths}
    \cup
    {<<"https", "://", "x">> \o path \o <<"?">> \o Join(q, "&") :
        path \in Paths, q \in SeqsUpTo(QueryParams, MaxQueryParams)}

\* The pagination configurations: the type, the pages and the parameter.
PaginationConfigs ==
    [type : {"query", "path", "other"}, startPage : 1..MaxPage, endPage : 1..MaxPage,
     paramName : {<<"page">>, <<"x">>}]

\* str.find for a set of tokens: the first place of one of them, 0 if none.
IndexOfAny(str, T) ==
    IF \E i \in DOMAIN str : str[i] \in T
    THEN CHOOSE i \in DOMAIN str : str[i] \in T /\ \A j \in 1..(i - 1) : str[j] \notin T
    ELSE 0

\* What stands before, and after, the first token of T in str.
Before(str, T) ==
    LET i == IndexOfAny(str, T) IN IF i = 0 THEN str ELSE SubSeq(str, 1, i - 1)
After(str, T) ==
    LET i == IndexOfAny(str, T) IN IF i = 0 THEN <<>> ELSE SubSeq(str, i + 1, Len(str))

\* urllib.parse.urlparse (line 509)
urlparse(url) ==
    LET hasScheme   == Len(url) >= 2 /\ url[2] = "://"
        rest        == IF hasScheme THEN SubSeq(url, 3, Len(url)) ELSE url
        netloc      == IF hasScheme THEN Before(rest, {"/", "?", "#"}) ELSE <<>>
        afterNetloc == SubSeq(rest, Len(netloc) + 1, Len(rest))
        noFragment  == Before(afterNetloc, {"#"})
    IN  [scheme   |-> IF hasScheme THEN <<url[1]>> ELSE <<>>,
         netloc   |-> netloc,
         path     |-> Before(noFragment, {"?"}),
         query    |-> After(noFragment, {"?"}),
         fragment |-> After(afterNetloc, {"#"})]

RECURSIVE Split(_, _)
\* str.split(sep)
Split(str, sep) ==
    LET i == IndexOfAny(str, {sep})
    IN  IF i = 0 THEN <<str>>
        ELSE <<SubSeq(str, 1, i - 1)>> \o Split(SubSeq(str, i + 1, Len(str)), sep)

\* urllib.parse.unquote after '+' has become ' ', and quote_plus, on the
\* tokens at hand.
unquote(str) == [i \in DOMAIN str |-> IF str[i] \in {"%20", "+"} THEN " " ELSE str[i]]
quote_plus(str) == [i \in DOMAIN str |-> IF str[i] = " " THEN "+" ELSE str[i]]

RECURSIVE parse_qsl(_, _)
\* urllib.parse.parse_qsl over the fields of a query string: the
\* <<name, value>> pairs, a field of blank value kept only on request.
parse_qsl(fields, keep_blank_values) ==
    IF fields = <<>> THEN <<>>
    ELSE LET name_value == Head(fields)
             name  == Before(name_value, {"="})
             value == After(name_value, {"="})
             more  == parse_qsl(Tail(fields), keep_blank_values)
         IN  IF name_value = <<>> THEN more
             ELSE IF Len(value) > 0 \/ keep_blank_values
                  THEN <<<<unquote(name), unquote(value)>>>> \o more
                  ELSE more

\* A dict of lists is the sequence of its <<key, values>> in insertion order.
HasKey(dict, k) == \E i \in DOMAIN dict : dict[i][1] = k
DictGet(dict, k) == dict[CHOOSE i \in DOMAIN dict : dict[i][1] = k][2]
DictSet(dict, k, vs) ==
    IF HasKey(dict, k)
    THEN [i \in DOMAIN dict |-> IF dict[i][1] = k THEN <<k, vs>> ELSE dict[i]]
    ELSE Append(dict, <<k, vs>>)

RECURSIVE GroupPairs(_, _)
GroupPairs(pairs, dict) ==
    IF pairs = <<>> THEN dict
    ELSE LET k == Head(pairs)[1]
             v == Head(pairs)[2]
         IN  GroupPairs(Tail(pairs),
                        DictSet(dict, k, IF HasKey(dict, k)
                                         THEN Append(DictGet(dict, k), v)
                                         ELSE <<v>>))

\* urllib.parse.parse_qs(qs, keep_blank_values)
parse_qs(qs, keep_blank_values) ==
    GroupPairs(parse_qsl(Split(qs, "&"), keep_blank_values), <<>>)

RECURSIVE EncodeValues(_, _)
EncodeValues(k, vs) ==
    IF vs = <<>> THEN <<>>
    ELSE <<quote_plus(k) \o <<"=">> \o quote_plus(Head(vs))>> \o EncodeValues(k, Tail(vs))

RECURSIVE EncodeItems(_)
EncodeItems(dict) ==
    IF dict = <<>> THEN <<>>
    ELSE EncodeValues(Head(dict)[1], Head(dict)[2]) \o EncodeItems(Tail(dict))

\* urllib.parse.urlencode(query, doseq=True)
urlencode(dict) == Join(EncodeItems(dict), "&")

\* str(page)
Str(n) == <<ToString(n)>>

RECURSIVE rstrip(_, _)
\* str.rstrip(token)
rstrip(str, token) ==
    IF str # <<>> /\ str[Len(str)] = token
    THEN rstrip(SubSeq(str, 1, Len(str) - 1), token)
    ELSE str

\* The URL of a page in query mode, with the default keep_blank_values=False
\* of parse_qs (lines 509-513).
QueryPageUrl(base, param_name, page) ==
    LET parsed    == urlparse(base)
        query     == DictSet(parse_qs(parsed.query, FALSE), param_name, <<Str(page)>>)
        new_query == urlencode(query)
    IN  parsed.scheme \o <<"://">> \o parsed.netloc \o parsed.path \o <<"?">> \o new_query

\* The URL of a page in path mode (line 516).
PathPageUrl(base, page) ==
    rstrip(base, "/") \o <<"/", "page", "/">> \o Str(page)

RECURSIVE PageLoop(_, _, _, _)
\* The loop of lines 507-516 from `page` on; a type that is neither 'query'
\* nor 'path' appends nothing.
PageLoop(base, config, page, acc) ==
    IF page > config.endPage THEN acc
    ELSE PageLoop(base, config, page + 1,
                  IF config.type = "query"
                  THEN Append(acc, QueryPageUrl(base, config.paramName, page))
                  ELSE IF config.type = "path"
                  THEN Append(acc, PathPageUrl(base, page))
                  ELSE acc)

\* get_pagination_urls with the last page left out: range(start_page, end_page).
get_pagination_urls_short(base, config) ==
    IF config = NoConfig THEN <<base>>
    ELSE PageLoop(base, [config EXCEPT !.endPage = @ - 1], config.startPage, <<>>)

\* get_pagination_urls (lines 496-518)
get_pagination_urls(base, config) ==
    IF config = NoConfig THEN <<base>>
    ELSE PageLoop(base, config, config.startPage, <<>>)

PageInit ==
    /\ base_url \in BaseUrls
    /\ pagination_config \in PaginationConfigs \cup {NoConfig}
    /\ urls = <<>>
    /\ planned = FALSE

\* The call self.get_pagination_urls(base_url)
Plan ==
    /\ ~planned
    /\ urls' = get_pagination_urls(base_url, pagination_config)
    /\ planned' = TRUE
    /\ UNCHANGED <<base_url, pagination_config>>

PageNext == Plan /\ UNCHANGED notPage

InitPage == PageInit /\ RetryIdle /\ RateIdle /\ ProxyIdle /\ DedupIdle /\ JobIdle /\ AsyncIdle /\ AlignIdle
    /\ MoreIdle

SpecPage == InitPage /\ [][PageNext]_vars

\* The query parameters a URL is written with, blank ones included.
ParamsOf(url) == parse_qs(urlparse(url).query, TRUE)
ValuesOf(url, name) == IF HasKey(ParamsOf(url), name) THEN DictGet(ParamsOf(url), name) ELSE <<>>
NamesOf(url) == {ParamsOf(url)[i][1] : i \in DOMAIN ParamsOf(url)}

EndsWith(str, suffix) ==
    /\ Len(str) >= Len(suffix)
    /\ SubSeq(str, Len(str) - Len(suffix) + 1, Len(str)) = suffix

\* Whether url carries the page number in the way of the configured mode.
CarriesPage(url, config, page) ==
    IF config.type = "query"
    THEN ValuesOf(url, config.paramName) = <<Str(page)>>
    ELSE EndsWith(url, <<"/", "page", "/">> \o Str(page))

\* C9: for a pagination configuration of either mode with startPage <=
\* endPage, get_pagination_urls returns endPage - startPage + 1 URLs, the
\* i-th carrying page startPage + i - 1; with no configuration it returns
\* the base URL alone.
C9_PlanLengthAndOrder ==
    planned =>
        IF pagination_config = NoConfig
        THEN urls = <<base_url>>
        ELSE (pagination_config.type \in {"query", "path"}
              /\ pagination_config.startPage <= pagination_config.endPage) =>
                 /\ Len(urls) = pagination_config.endPage - pagination_config.startPage + 1
                 /\ \A i \in 1..Len(urls) :
                        CarriesPage(urls[i], pagination_config,
                                    pagination_config.startPage + i - 1)

\* A plan of three pages in query mode over a base URL that has a query.
C9_Witness ==
    /\ planned
    /\ pagination_config # NoConfig
    /\ pagination_config.type = "query"
    /\ pagination_config.startPage = 1
    /\ pagination_config.endPage = 3
    /\ Len(urls) = 3
    /\ base_url = <<"https", "://", "x", "/", "a", "?", "x", "=", "1">>
    /\ urls[2] = <<"https", "://", "x", "/", "a", "?", "x", "=", "1", "&", "page", "=", "2">>

\* C10: in query mode every URL returned has the named parameter with the
\* page number as its one value, and every other parameter of the base URL
\* with the values it has there.
C10_QueryParamsPreserved ==
    (planned /\ pagination_config # NoConfig /\ pagination_config.type = "query") =>
        \A i \in 1..Len(urls) :
            /\ ValuesOf(urls[i], pagination_config.paramName)
                   = <<Str(pagination_config.startPage + i - 1)>>
            /\ \A name \in NamesOf(base_url) \ {pagination_config.paramName} :
                   ValuesOf(urls[i], name) = ValuesOf(base_url, name)

\* C10, the part of it that holds of the code: the named parameter has the
\* page number as its one value, and every other parameter of the base URL
\* keeps its non-blank values; a parameter whose values are all blank is
\* not in the URL.
C10_NonBlankParamsPreserved ==
    (planned /\ pagination_config # NoConfig /\ pagination_config.type = "query") =>
        \A i \in 1..Len(urls) :
            /\ ValuesOf(urls[i], pagination_config.paramName)
                   = <<Str(pagination_config.startPage + i - 1)>>
            /\ \A name \in NamesOf(base_url) \ {pagination_config.paramName} :
                   ValuesOf(urls[i], name)
                       = SelectSeq(ValuesOf(base_url, name), LAMBDA v : v # <<>>)

\* Whether url is base with /page/n appended to its path component, the
\* trailing slash of that path stripped, and nothing else of base changed.
PathPageOf(url, base, page) ==
    LET u == urlparse(url)
        b == urlparse(base)
    IN  /\ u.scheme = b.scheme
        /\ u.netloc = b.netloc
        /\ u.path = rstrip(b.path, "/") \o <<"/", "page", "/">> \o Str(page)
        /\ u.query = b.query

\* C11: in path mode every URL returned for page n is the base URL with
\* /page/n appended to its path component, the trailing slash of the path
\* stripped first, also when the base URL has a query string.
C11_PathModeAppendsToPath ==
    (planned /\ pagination_config # NoConfig /\ pagination_config.type = "path") =>
        \A i \in 1..Len(urls) :
            PathPageOf(urls[i], base_url, pagination_config.startPage + i - 1)

\* C11, the part of it that holds of the code: a base URL without "?" gets
\* /page/n appended to its path.
C11_PathModeWithoutQuery ==
    (planned /\ pagination_config # NoConfig /\ pagination_config.type = "path"
     /\ "?" \notin Range(base_url)) =>
        \A i \in 1..Len(urls) :
            PathPageOf(urls[i], base_url, pagination_config.startPage + i - 1)


(***************************************************************************)
(* WebScraper.run as the worker run_scraper drives it: the JavaScript      *)
(* engine is set up, the URLs are scraped one by one, in item mode by      *)
(* scrape_items (one record per container) and else by the regular branch  *)
(* of scrape_page (one record per page), the results are saved and the     *)
(* engine is released.  The configuration declares one field, title, and   *)
(* scrapeImages is off.                                                    *)
(***************************************************************************)
\* The most containers, or matches of a selector, found on one page.
MaxContainers == 2
\* The clock of datetime.now() stops here.
MaxJobClock == 2

\* The lists of URLs of a job: those get_pagination_urls makes, one URL per
\* page and all different, and a list given to run() that has an empty entry.
JobUrlLists == {<<"u1">>, <<"u1", "u2">>, <<"", "u1">>}

\* fieldSelectors: the names of the declared fields, in order.
FieldNames == <<"title">>

\* The configurations of a declared field (lines 630-634): its selector,
\* which may be empty, its dialect and the flag required.
FieldConfigs ==
    [name : Range(FieldNames), selector : {"h2"}, type : {"css", "xpath"},
     required : BOOLEAN]
    \cup [name : Range(FieldNames), selector : {""}, type : {"css"}, required : {FALSE}]

\* What the extraction of a field from a container comes to: the text of
\* the first match, stripped at both ends, '' when nothing matches, or the
\* evaluation of the selector raising.
FieldValues == {"a b", "a  b", ""}
ExtractionError == "ExtractionError"
FieldOutcomes == FieldValues \cup {ExtractionError}

\* A container is what each declared field yields in it.
Containers == [Range(FieldNames) -> FieldOutcomes]

\* What scrape_items finds: get_page_content returned None, parsing or
\* locating the containers raised, or the containers of the page.
PageContents ==
    {[kind |-> "none", conts |-> <<>>], [kind |-> "error", conts |-> <<>>]}
    \cup {[kind |-> "html", conts |-> c] : c \in SeqsUpTo(Containers, MaxContainers)}

\* What the regular branch of scrape_page finds: get_page_content returned
\* None, parsing raised, or the texts the selector matches on the page (none
\* when extract_with_css or extract_with_xpath caught an error, lines 453-455
\* and 464-466).
RegularContents ==
    {[kind |-> "none", values |-> <<>>], [kind |-> "error", values |-> <<>>]}
    \cup {[kind |-> "html", values |-> v] : v \in SeqsUpTo(FieldValues, MaxContainers)}

\* item_data = None (line 702)
NoItem == <<>>

\* What a field's extraction leaves in value when the selector raises: the
\* path branch catches it at lines 670-672 and goes on with no element.
CaughtInside(field) == field.type = "xpath"

RECURSIVE FieldLoop(_, _, _, _)
\* The loop over field_selectors of lines 629-704, from the k-th field on.
FieldLoop(item_data, container, fields, k) ==
    IF k > Len(fields) THEN item_data
    ELSE LET field == fields[k]
             value == container[field.name]
         IN  IF field.selector = ""
             THEN FieldLoop(item_data, container, fields, k + 1)
             ELSE IF value = ExtractionError /\ ~CaughtInside(field)
             THEN IF field.required
                  THEN NoItem
                  ELSE FieldLoop(DictSet(item_data, field.name, ""), container,
                                 fields, k + 1)
             ELSE FieldLoop(DictSet(item_data, field.name,
                                    IF value = ExtractionError THEN "" ELSE value),
                            container, fields, k + 1)

\* item_data of lines 614-704 for the container of index idx (from 0),
\* scraped at time t.
BuildItem(idx, url, t, container, fields) ==
    FieldLoop(<<<<"item_index", idx + 1>>, <<"url", url>>, <<"scraped_at", t>>>>,
              container, fields, 1)

RECURSIVE SelectorLoop(_, _, _, _)
\* The loop over config['selectors'] of lines 778-794, from the k-th on:
\* page_data, every selector matching the texts `values`.
SelectorLoop(page_data, values, fields, k) ==
    IF k > Len(fields) THEN page_data
    ELSE IF fields[k].selector = ""
         THEN SelectorLoop(page_data, values, fields, k + 1)
         ELSE SelectorLoop(DictSet(page_data, fields[k].name, values), values, fields,
                           k + 1)

\* page_data of lines 775-794
BuildPage(url, t, values, fields) ==
    SelectorLoop(<<<<"url", url>>, <<"scraped_at", t>>>>, values, fields, 1)

\* What lines 793 add to stats.total_items over the loop.
ExtractedCount(values, fields) ==
    Len(values) * Cardinality({k \in DOMAIN fields : fields[k].selector # ""})

\* DataValidator.clean_text on the strings at hand: runs of white space
\* become one blank (lines 202-209).
clean_text(text) == IF text = "a  b" THEN "a b" ELSE text

\* DataValidator.clean_data (lines 227-238) on a record of scrape_items;
\* item_index is an int and the time stamp has no white space, so both stay
\* as they are.
clean_data(data) ==
    [i \in DOMAIN data |->
        IF data[i][1] \in {"item_index", "scraped_at"}
        THEN data[i]
        ELSE <<data[i][1], clean_text(data[i][2])>>]

\* DataValidator.clean_data on a record of the regular branch, where the
\* value of a declared field is a list of strings (lines 233-235).
clean_data_lists(data) ==
    [i \in DOMAIN data |->
        IF data[i][1] = "scraped_at"
        THEN data[i]
        ELSE IF data[i][1] = "url"
        THEN <<data[i][1], clean_text(data[i][2])>>
        ELSE <<data[i][1], [j \in DOMAIN data[i][2] |-> clean_text(data[i][2][j])]>>]

\* The snapshot with current counted from 0: idx in the place of idx + 1.
ProgressSnapshotFromZero(idx, total, url) ==
    [current |-> idx, total |-> total, url |-> url, status |-> "scraping"]

\* The snapshot run() hands to the progress callback (lines 1000-1005).
ProgressSnapshot(idx, total, url) ==
    [current |-> idx + 1, total |-> total, url |-> url, status |-> "scraping"]

\* The handles of a rendering backend, in the order close_js_engine closes
\* them (lines 405-412).
CloseOrder == <<"page", "browser", "playwright", "driver">>

\* The handles init_js_engine can leave set (lines 377-400): each of its
\* calls may raise, and what was set before stays set.
InitJsOutcomes(use_js, engine) ==
    IF ~use_js THEN {{}}
    ELSE IF engine = "playwright"
    THEN {{}, {"playwright"}, {"playwright", "browser"}, {"playwright", "browser", "page"}}
    ELSE {{}, {"driver"}}

\* Whether init_js_engine came through: use_js_rendering stays set.
EngineReady(engine, acq) ==
    \/ engine = "playwright" /\ acq = {"playwright", "browser", "page"}
    \/ engine = "selenium" /\ acq = {"driver"}

RECURSIVE CloseLoop(_, _, _, _)
\* The statements of the try of close_js_engine from the k-th on: a close
\* that raises ends the try, and the except passes (lines 404-414).
CloseLoop(k, acq, fails, done) ==
    IF k > Len(CloseOrder) THEN done
    ELSE LET handle == CloseOrder[k]
         IN  IF handle \notin acq THEN CloseLoop(k + 1, acq, fails, done)
             ELSE IF handle \in fails THEN done
             ELSE CloseLoop(k + 1, acq, fails, done \cup {handle})

\* close_js_engine: the handles it has closed when it returns.
close_js_engine(acq, fails) == CloseLoop(1, acq, fails, {})

\* The parts of the state of a job.
configVars == <<jobUrls, field_selectors, item_mode, progress_callback, js_engine>>
renderVars == <<use_js_rendering, acquired, closed, closeFails>>
itemVars   == <<containers, contIdx, items>>
reportVars == <<jobError, jobStatus, jobResults>>

\* The state in which the worker thread starts (app.py 187-195), whatever
\* the configuration.
JobStart ==
    /\ jobIdx = 0
    /\ jobPhase = "start"
    /\ containers = <<>>
    /\ contIdx = 0
    /\ items = <<>>
    /\ results = <<>>
    /\ stats = [total_pages |-> 0, successful_pages |-> 0, failed_pages |-> 0,
                total_items |-> 0, end_time |-> <<>>]
    /\ clock = 0
    /\ progressLog = <<>>
    /\ fetchLog = <<>>
    /\ acquired = {}
    /\ closed = {}
    /\ closeFails = {}
    /\ jobError = None
    /\ jobStatus = "queued"
    /\ jobResults = <<>>
    /\ data_hash = {}
    /\ dupLog = <<>>

\* The jobs of the extraction pipeline: any list of URLs, either mode, any
\* declared field, with a progress callback and without JavaScript rendering.
JobInit ==
    /\ JobStart
    /\ jobUrls \in JobUrlLists
    /\ field_selectors \in {<<f>> : f \in FieldConfigs}
    /\ item_mode \in BOOLEAN
    /\ incremental \in BOOLEAN
    /\ progress_callback = TRUE
    /\ use_js_rendering = FALSE
    /\ js_engine = "playwright"
    /\ container_selector = <<".", "item">>

\* The jobs of the life cycle of run(): one URL to scrape, one plain field,
\* either mode, with or without a progress callback, any rendering backend.
RunInit ==
    /\ JobStart
    /\ jobUrls \in {<<"u1">>, <<"", "u1">>}
    /\ field_selectors = <<[name |-> "title", selector |-> "h2", type |-> "css",
                            required |-> FALSE]>>
    /\ item_mode \in BOOLEAN
    /\ incremental = FALSE
    /\ progress_callback \in BOOLEAN
    /\ use_js_rendering \in BOOLEAN
    /\ js_engine \in {"playwright", "selenium"}
    /\ container_selector \in {<<>>, <<".", "item">>}

\* The worker marks the job running, builds the scraper and run() sets up
\* the JavaScript engine (app.py 197-205, scraper.py 969-973).
StartRun(acq) ==
    /\ jobPhase = "start"
    /\ jobStatus' = "running"
    /\ acquired' = acq
    /\ use_js_rendering' = (use_js_rendering /\ EngineReady(js_engine, acq))
    /\ jobPhase' = "setup"
    /\ UNCHANGED <<configVars, itemVars, jobIdx, results, stats, clock, progressLog,
                   fetchLog, closed, closeFails, jobError, jobResults, dedupVars>>

\* Proxies, credentials, login and the list of URLs (lines 976-992); an
\* exception here leaves the try for the finally.
Setup(ok) ==
    /\ jobPhase = "setup"
    /\ IF ok
       THEN /\ stats' = [stats EXCEPT !.total_pages = Len(jobUrls)]
            /\ jobPhase' = "loop"
            /\ UNCHANGED jobError
       ELSE /\ jobError' = "setup"
            /\ jobPhase' = "release"
            /\ UNCHANGED stats
    /\ UNCHANGED <<configVars, renderVars, itemVars, jobIdx, results, clock, progressLog,
                   fetchLog, jobStatus, jobResults, dedupVars>>

\* SkipEmpty with the loop staying at the empty URL.
SkipEmptyStays ==
    /\ jobPhase = "loop"
    /\ jobIdx < Len(jobUrls)
    /\ jobUrls[jobIdx + 1] = ""
    /\ UNCHANGED jobIdx
    /\ UNCHANGED <<configVars, renderVars, itemVars, reportVars, jobPhase, results, stats,
                   clock, progressLog, fetchLog, dedupVars>>

\* An empty URL is passed over (lines 996-997).
SkipEmpty ==
    /\ jobPhase = "loop"
    /\ jobIdx < Len(jobUrls)
    /\ jobUrls[jobIdx + 1] = ""
    /\ jobIdx' = jobIdx + 1
    /\ UNCHANGED <<configVars, renderVars, itemVars, reportVars, jobPhase, results, stats,
                   clock, progressLog, fetchLog, dedupVars>>

\* run() takes the next URL and tells the progress callback (lines 995-1005).
NextUrl ==
    /\ jobPhase = "loop"
    /\ jobIdx < Len(jobUrls)
    /\ jobUrls[jobIdx + 1] # ""
    /\ progressLog' = IF progress_callback
                      THEN Append(progressLog, ProgressSnapshot(jobIdx, Len(jobUrls),
                                                                jobUrls[jobIdx + 1]))
                      ELSE progressLog
    /\ jobPhase' = "page"
    /\ UNCHANGED <<configVars, renderVars, itemVars, reportVars, jobIdx, results, stats,
                   clock, fetchLog, dedupVars>>

\* A failed page that ends the job: the exception leaves run().
FailedPageAborts ==
    /\ stats' = [stats EXCEPT !.failed_pages = @ + 1]
    /\ jobIdx' = jobIdx + 1
    /\ jobError' = "page"
    /\ jobPhase' = "release"

\* A page whose fetch gave nothing or whose extraction raised: it is counted
\* and scrape_page returns None, so run() goes on with the next URL (lines
\* 553-555 and 739-742, 770-772 and 827-830, 1009).
FailedPage ==
    /\ stats' = [stats EXCEPT !.failed_pages = @ + 1]
    /\ jobIdx' = jobIdx + 1
    /\ UNCHANGED jobError
    /\ jobPhase' = "loop"

\* In item mode scrape_page hands the URL to scrape_items, which fetches and
\* parses it and locates the containers (lines 1007, 753-754, 549-610);
\* without a container selector it logs an error and returns None (lines
\* 565-568).
BeginPage(content) ==
    /\ jobPhase = "page"
    /\ item_mode
    /\ fetchLog' = Append(fetchLog, [url |-> jobUrls[jobIdx + 1], outcome |-> content.kind])
    /\ IF content.kind = "html" /\ container_selector = <<>>
       THEN /\ jobIdx' = jobIdx + 1
            /\ jobPhase' = "loop"
            /\ UNCHANGED <<itemVars, stats, jobError>>
       ELSE IF content.kind = "html"
       THEN /\ jobPhase' = "items"
            /\ containers' = content.conts
            /\ contIdx' = 0
            /\ items' = <<>>
            /\ UNCHANGED <<jobIdx, stats, jobError>>
       ELSE /\ FailedPage
            /\ UNCHANGED itemVars
    /\ UNCHANGED <<configVars, renderVars, results, clock, progressLog, jobStatus,
                   jobResults, dedupVars>>

\* One pass of the loop over the containers (lines 613-716); the clock may
\* have moved on when datetime.now() is read.
ProcessContainer(elapsed) ==
    /\ jobPhase = "items"
    /\ contIdx < Len(containers)
    /\ clock + elapsed <= MaxJobClock
    /\ clock' = clock + elapsed
    /\ contIdx' = contIdx + 1
    /\ LET item_data == BuildItem(contIdx, jobUrls[jobIdx + 1], clock + elapsed,
                                  containers[contIdx + 1], field_selectors)
           cleaned == clean_data(item_data)
           dup == is_duplicate(incremental, data_hash, cleaned)
       IN  IF item_data = NoItem
           THEN UNCHANGED <<items, stats, data_hash>>
           ELSE /\ data_hash' = dup.hashes
                /\ IF dup.result
                   THEN UNCHANGED <<items, stats>>
                   ELSE /\ items' = Append(items, cleaned)
                        /\ stats' = [stats EXCEPT !.total_items = @ + 1]
    /\ UNCHANGED <<configVars, renderVars, reportVars, jobIdx, jobPhase, containers,
                   results, progressLog, fetchLog, incremental, dupLog>>

\* scrape_items returns its items (lines 735-737), scrape_page wraps them
\* when there are any (lines 755-763) and run() appends them to self.results
\* (lines 1009-1014).
EndPage ==
    /\ jobPhase = "items"
    /\ contIdx = Len(containers)
    /\ stats' = [stats EXCEPT !.successful_pages = @ + 1]
    /\ results' = results \o items
    /\ jobIdx' = jobIdx + 1
    /\ jobPhase' = "loop"
    /\ containers' = <<>>
    /\ contIdx' = 0
    /\ items' = <<>>
    /\ UNCHANGED <<configVars, renderVars, reportVars, clock, progressLog, fetchLog,
                   dedupVars>>

\* The regular branch of scrape_page and what run() does with its result
\* (lines 1007, 766-830, 1009-1016).
ScrapeRegular(content, elapsed) ==
    /\ jobPhase = "page"
    /\ ~item_mode
    /\ fetchLog' = Append(fetchLog, [url |-> jobUrls[jobIdx + 1], outcome |-> content.kind])
    /\ IF content.kind = "html"
       THEN /\ clock + elapsed <= MaxJobClock
            /\ clock' = clock + elapsed
            /\ LET page_data == clean_data_lists(BuildPage(jobUrls[jobIdx + 1],
                                                           clock + elapsed,
                                                           content.values,
                                                           field_selectors))
                   found == ExtractedCount(content.values, field_selectors)
                   dup == is_duplicate(incremental, data_hash, page_data)
               IN  /\ data_hash' = dup.hashes
                   /\ IF dup.result
                      THEN /\ stats' = [stats EXCEPT !.total_items = @ + found]
                           /\ UNCHANGED results
                      ELSE /\ stats' = [stats EXCEPT !.total_items = @ + found,
                                                     !.successful_pages = @ + 1]
                           /\ results' = Append(results, page_data)
            /\ jobIdx' = jobIdx + 1
            /\ jobPhase' = "loop"
            /\ UNCHANGED jobError
       ELSE /\ FailedPage
            /\ UNCHANGED <<results, clock, data_hash>>
    /\ UNCHANGED <<configVars, renderVars, itemVars, progressLog, jobStatus, jobResults,
                   incremental, dupLog>>

\* An exception raised by the loop's own statements, outside scrape_page
\* (lines 995-1020): it leaves the try for the finally.
LoopRaises ==
    /\ jobPhase \in {"loop", "page"}
    /\ jobIdx < Len(jobUrls)
    /\ jobError' = "loop"
    /\ jobPhase' = "release"
    /\ UNCHANGED <<configVars, renderVars, itemVars, jobIdx, results, stats, clock,
                   progressLog, fetchLog, jobStatus, jobResults, dedupVars>>

\* The loop is over: the results, if any, go to save_results, whose writer
\* may raise (lines 1022-1028, 934-955).
SaveResults(ok) ==
    /\ jobPhase = "loop"
    /\ jobIdx = Len(jobUrls)
    /\ jobError' = IF results # <<>> /\ ~ok THEN "save" ELSE jobError
    /\ jobPhase' = "release"
    /\ UNCHANGED <<configVars, renderVars, itemVars, jobIdx, results, stats, clock,
                   progressLog, fetchLog, jobStatus, jobResults, dedupVars>>

\* The finally of run(): close_js_engine, some of whose closes may raise
\* (lines 1030-1041), and end_time is set; run() then returns, or the
\* exception goes on.
Release(fails) ==
    /\ jobPhase = "release"
    /\ closeFails' = fails
    /\ closed' = close_js_engine(acquired, fails)
    /\ stats' = [stats EXCEPT !.end_time = <<clock>>]
    /\ jobPhase' = "exit"
    /\ UNCHANGED <<configVars, reportVars, itemVars, use_js_rendering, acquired, jobIdx,
                   results, clock, progressLog, fetchLog, dedupVars>>

\* The worker records how run() ended (app.py 206-225).
Report ==
    /\ jobPhase = "exit"
    /\ IF jobError = None
       THEN /\ jobStatus' = "completed"
            /\ jobResults' = <<results>>
       ELSE /\ jobStatus' = "failed"
            /\ UNCHANGED jobResults
    /\ jobPhase' = "done"
    /\ UNCHANGED <<configVars, renderVars, itemVars, jobIdx, results, stats, clock,
                   progressLog, fetchLog, jobError, dedupVars>>

JobNext ==
    \/ \E acq \in InitJsOutcomes(use_js_rendering, js_engine) :
           StartRun(acq) /\ UNCHANGED notJob
    \/ \E ok \in BOOLEAN : Setup(ok) /\ UNCHANGED notJob
    \/ SkipEmpty /\ UNCHANGED notJob
    \/ NextUrl /\ UNCHANGED notJob
    \/ \E content \in PageContents : BeginPage(content) /\ UNCHANGED notJob
    \/ \E elapsed \in 0..1 : ProcessContainer(elapsed) /\ UNCHANGED notJob
    \/ EndPage /\ UNCHANGED notJob
    \/ \E content \in RegularContents, elapsed \in 0..1 :
           ScrapeRegular(content, elapsed) /\ UNCHANGED notJob
    \/ LoopRaises /\ UNCHANGED notJob
    \/ \E ok \in BOOLEAN : SaveResults(ok) /\ UNCHANGED notJob
    \/ \E fails \in SUBSET acquired : Release(fails) /\ UNCHANGED notJob
    \/ Report /\ UNCHANGED notJob

InitJob == JobInit /\ RetryIdle /\ RateIdle /\ ProxyIdle /\ PageIdle /\ AsyncIdle /\ AlignIdleButSelector
    /\ MoreIdle

SpecJob == InitJob /\ [][JobNext]_vars

InitRun == RunInit /\ RetryIdle /\ RateIdle /\ ProxyIdle /\ PageIdle /\ AsyncIdle /\ AlignIdleButSelector
    /\ MoreIdle

SpecRun == InitRun /\ [][JobNext]_vars

\* The pairs of a record whose key is a declared field.
DeclaredContent(record) ==
    SelectSeq(record, LAMBDA pair : pair[1] \in Range(FieldNames))

\* C7: in incremental mode no two records accumulated by a job from the
\* containers of its pages, each with the declared field, have the same
\* values for every declared field.
C7_NoTwoRecordsSameContent ==
    (incremental /\ item_mode) =>
        \A i, j \in 1..Len(results) :
            (i # j /\ DeclaredContent(results[i]) # <<>>)
                => DeclaredContent(results[i]) # DeclaredContent(results[j])

\* C7, what the code does keep apart: in item mode the records of a job
\* differ in item_index or in url, so in incremental mode none is ever
\* suppressed and every record built is emitted.
C7_RecordsDifferByIndexOrUrl ==
    item_mode =>
        /\ \A i, j \in 1..Len(results) :
               i # j => \/ ValueOf(results[i], "item_index") # ValueOf(results[j], "item_index")
                        \/ ValueOf(results[i], "url") # ValueOf(results[j], "url")
        /\ jobPhase = "loop" => stats.total_items = Len(results)

\* The entries of a list of URLs that run() does not pass over, and their
\* places in the list.
NonEmpty(url_list) == SelectSeq(url_list, LAMBDA url : url # "")
RECURSIVE PlacesFrom(_, _)
PlacesFrom(url_list, k) ==
    IF k > Len(url_list) THEN <<>>
    ELSE IF url_list[k] # "" THEN <<k>> \o PlacesFrom(url_list, k + 1)
    ELSE PlacesFrom(url_list, k + 1)

\* run() has left its loop over the URLs by way of its end.
LoopCompleted ==
    jobPhase \in {"release", "exit", "done"} /\ jobError \notin {"setup", "loop"}

\* The pages among the first k of fetchLog that failed.
FailedFetches == {k \in DOMAIN fetchLog : fetchLog[k].outcome \in {"none", "error"}}

\* C12: a page whose fetch gives nothing or whose extraction raises never
\* aborts the job: failed_pages counts exactly these pages, no exception
\* leaves run() for them, and once the loop is over every URL of the list
\* that is not empty has been fetched, in order, in item and in page mode.
C12_FailedPageNeverAborts ==
    /\ stats.failed_pages = Cardinality(FailedFetches)
    /\ jobError \in {None, "setup", "loop", "save"}
    /\ LoopCompleted =>
           [k \in DOMAIN fetchLog |-> fetchLog[k].url] = NonEmpty(jobUrls)

\* A job in item mode whose first page failed in extraction and whose second
\* page was fetched and scraped all the same.
C12_Witness ==
    /\ jobPhase = "done"
    /\ item_mode
    /\ jobUrls = <<"u1", "u2">>
    /\ Len(fetchLog) = 2
    /\ fetchLog[1].outcome = "error"
    /\ fetchLog[2].outcome = "html"
    /\ stats.failed_pages = 1
    /\ stats.successful_pages = 1
    /\ jobStatus = "completed"

\* C28: every URL run() has processed has raised exactly one of
\* successful_pages and failed_pages: the two add up to the number of URLs
\* handed to scrape_page so far, never to more than total_pages, and, once
\* the loop is over, to the number of URLs of the list that are not empty,
\* in page mode and in item mode, incremental or not.
C28_ExactPageAccounting ==
    /\ jobPhase # "items" =>
           stats.successful_pages + stats.failed_pages = Len(fetchLog)
    /\ jobPhase \notin {"idle", "start", "setup"} =>
           stats.successful_pages + stats.failed_pages <= stats.total_pages
    /\ LoopCompleted =>
           stats.successful_pages + stats.failed_pages = Len(NonEmpty(jobUrls))

\* C28, the part of it that holds of the code: the accounting of a job
\* whose item mode has a container selector.
C28_ExactWithContainerSelector ==
    (item_mode => container_selector # <<>>) => C28_ExactPageAccounting

\* C13: when save_results fails after the loop, run() still returns, the
\* job record holds the records computed and the job does not end failed.
C13_SaveFailureNotThrown ==
    (jobPhase = "done" /\ jobError = "save") =>
        /\ jobStatus = "completed"
        /\ jobResults = <<results>>

\* C13, what the code does: the job ends completed, with its records, when
\* and only when no exception left run(); a failed save ends it failed and
\* without records.
C13_ReportFollowsRun ==
    jobPhase = "done" =>
        IF jobError = None
        THEN jobStatus = "completed" /\ jobResults = <<results>>
        ELSE jobStatus = "failed" /\ jobResults = <<>>

\* C14: after the release of run() every handle that init_js_engine had set
\* and whose close does not itself fail has been closed.
C14_ReleaseClosesEveryHandle ==
    jobPhase \in {"exit", "done"} => (acquired \ closeFails) \subseteq closed

\* C14, the part of it that holds of the code: on every way out of run()
\* the release has run, and it has closed every handle when no close fails.
C14_ReleaseClosesWhenNoneFails ==
    (jobPhase \in {"exit", "done"} /\ closeFails = {}) => closed = acquired

\* Every snapshot precedes the fetch of its URL, and the loop, once over,
\* has emitted one snapshot per URL that is not empty, in list order.
SnapshotPerUrl ==
    /\ Len(fetchLog) <= Len(progressLog)
    /\ Len(progressLog) <= Len(fetchLog) + 1
    /\ \A k \in DOMAIN fetchLog : fetchLog[k].url = progressLog[k].url
    /\ LoopCompleted =>
           [k \in DOMAIN progressLog |-> progressLog[k].url] = NonEmpty(jobUrls)

\* C15: a job with a progress callback whose list has n URLs that are not
\* empty emits n snapshots with current = 1, ..., n in list order, each
\* before the fetch of its URL and all before the results are saved, failed
\* pages included.
C15_SnapshotsCountFrom1ToN ==
    progress_callback =>
        /\ SnapshotPerUrl
        /\ \A k \in DOMAIN progressLog : progressLog[k].current = k

\* C15 as amended: the same, with current the place of the URL in the list,
\* empty entries counted (1, ..., n when no entry is empty).
C15_SnapshotsCarryListPlace ==
    progress_callback =>
        /\ SnapshotPerUrl
        /\ \A k \in DOMAIN progressLog :
               progressLog[k].current = PlacesFrom(jobUrls, 1)[k]
        /\ (NonEmpty(jobUrls) = jobUrls) =>
               \A k \in DOMAIN progressLog : progressLog[k].current = k

\* A job of two URLs whose first page failed: two snapshots, 1 then 2.
C15_Witness ==
    /\ jobPhase = "done"
    /\ progress_callback
    /\ jobUrls = <<"u1", "u2">>
    /\ Len(progressLog) = 2
    /\ progressLog[1].current = 1
    /\ progressLog[2].current = 2
    /\ fetchLog[1].outcome = "none"

\* Whether the extraction of a required field of the given dialects fails
\* in a container: its selector raises when evaluated.
RequiredFails(container, dialects) ==
    \E k \in DOMAIN field_selectors :
        /\ field_selectors[k].required
        /\ field_selectors[k].selector # ""
        /\ field_selectors[k].type \in dialects
        /\ container[field_selectors[k].name] = ExtractionError

\* Whether scrape_items has a record for the i-th container of the page.
Emitted(i) == \E j \in DOMAIN items : ValueOf(items[j], "item_index") = i

\* C18: in item mode a container in which the extraction of a required
\* field fails, in either dialect, gets no record, and every other container
\* of the page gets its record.
C18_RequiredFailureDiscardsRecord ==
    jobPhase = "items" =>
        \A i \in 1..contIdx :
            Emitted(i) <=> ~RequiredFails(containers[i], {"css", "xpath"})

\* C18, the part of it that holds of the code: the same for a required
\* field of the CSS dialect; a required field of the path dialect whose
\* selector raises is left '' and its record is emitted.
C18_CssRequiredFailureDiscardsRecord ==
    jobPhase = "items" =>
        \A i \in 1..contIdx :
            Emitted(i) <=> ~RequiredFails(containers[i], {"css"})

\* The fields every record is given by the code.
BuiltInFields == {"item_index", "url", "scraped_at"}
\* The names of the declared fields, and of those with a selector.
DeclaredNames == {field_selectors[k].name : k \in DOMAIN field_selectors}
SelectedNames ==
    {field_selectors[k].name : k \in {j \in DOMAIN field_selectors :
                                          field_selectors[j].selector # ""}}

\* C19: the keys of every record emitted are built-in fields or declared
\* field names, url and scraped_at are among them, and so is every declared
\* field name.
C19_RecordKeys ==
    \A r \in DOMAIN results :
        /\ KeysOf(results[r]) \subseteq BuiltInFields \cup DeclaredNames
        /\ {"url", "scraped_at"} \subseteq KeysOf(results[r])
        /\ DeclaredNames \subseteq KeysOf(results[r])

\* C19, the part of it that holds of the code: the same, for the declared
\* fields whose selector is not empty; the others are in no record.
C19_RecordKeysOfSelectedFields ==
    \A r \in DOMAIN results :
        /\ {"url", "scraped_at"} \subseteq KeysOf(results[r])
        /\ KeysOf(results[r]) \ BuiltInFields = SelectedNames

(***************************************************************************)
(* The record of an asynchronous job, active_jobs[job_id]: the worker       *)
(* thread run_scraper writes it and job_status reads it, key by key, with   *)
(* no lock (app.py 169-264).  A key the dict does not have is <<>>, a       *)
(* value it has is <<value>>; status and progress are always there.         *)
(***************************************************************************)
\* The most URLs of the job the worker runs.
MaxSnapshots == 2
\* The most polls of job_status.
MaxPolls == 2

\* 'progress' as scrape_async sets it (app.py 189).
InitialProgress == [current |-> 0, total |-> 1]

\* The keys job_status reads, in the order of the dict it builds (app.py
\* 257-263); start_time never changes and is left out.
PollFields == <<"status", "progress", "results", "stats", "error", "end_time">>

\* A view of which nothing has been read yet.
NoView ==
    [status |-> "unread", progress |-> <<>>, results |-> <<>>, stats |-> <<>>,
     error |-> <<>>, end_time |-> <<>>]

\* scrape_async has made the record and started the thread (app.py 187-229).
AsyncInit ==
    /\ job = [status |-> "queued", progress |-> InitialProgress, results |-> <<>>,
              stats |-> <<>>, error |-> <<>>, end_time |-> <<>>]
    /\ workerPc = "start"
    /\ emitted = 0
    /\ jobTotal \in 1..MaxSnapshots
    /\ pollPc = 0
    /\ view = NoView
    /\ polls = 0
    /\ history = {job}

\* What every step of the worker does to the record.
Write(new_job) ==
    /\ job' = new_job
    /\ history' = history \cup {new_job}
    /\ UNCHANGED <<jobTotal, pollPc, view, polls>>

\* active_jobs[job_id]['status'] = 'running' (app.py 197)
WorkerStart ==
    /\ workerPc = "start"
    /\ workerPc' = "running"
    /\ Write([job EXCEPT !.status = "running"])
    /\ UNCHANGED emitted

\* run() tells progress_cb the next URL, and progress_cb stores the
\* snapshot (scraper.py 999-1005, app.py 199-201).
ProgressCb ==
    /\ workerPc = "running"
    /\ emitted < jobTotal
    /\ emitted' = emitted + 1
    /\ Write([job EXCEPT !.progress = ProgressSnapshot(emitted, jobTotal,
                                                       ToString(emitted + 1))])
    /\ UNCHANGED workerPc

\* run() has returned: one update of the record (app.py 206-215).
WorkerCompletes ==
    /\ workerPc = "running"
    /\ emitted = jobTotal
    /\ workerPc' = "done"
    /\ Write([job EXCEPT !.status = "completed", !.results = <<"results">>,
                         !.stats = <<"stats">>, !.end_time = <<"end_time">>])
    /\ UNCHANGED emitted

\* run() has raised: one update of the record (app.py 219-224).
WorkerFails ==
    /\ workerPc = "running"
    /\ workerPc' = "done"
    /\ Write([job EXCEPT !.status = "failed", !.error = <<"error">>,
                         !.end_time = <<"end_time">>])
    /\ UNCHANGED emitted

\* job_status looks the record up (app.py 247-253).
BeginPoll ==
    /\ pollPc \in {0, Len(PollFields) + 1}
    /\ polls < MaxPolls
    /\ polls' = polls + 1
    /\ pollPc' = 1
    /\ view' = NoView
    /\ UNCHANGED <<job, workerPc, emitted, jobTotal, history>>

\* job_status reads the next key of the record (app.py 257-263).
ReadField ==
    /\ pollPc \in 1..Len(PollFields)
    /\ view' = [view EXCEPT ![PollFields[pollPc]] = job[PollFields[pollPc]]]
    /\ pollPc' = pollPc + 1
    /\ UNCHANGED <<job, workerPc, emitted, jobTotal, polls, history>>

AsyncNext ==
    \/ WorkerStart /\ UNCHANGED notAsync
    \/ ProgressCb /\ UNCHANGED notAsync
    \/ WorkerCompletes /\ UNCHANGED notAsync
    \/ WorkerFails /\ UNCHANGED notAsync
    \/ BeginPoll /\ UNCHANGED notAsync
    \/ ReadField /\ UNCHANGED notAsync

InitAsync ==
    AsyncInit /\ RetryIdle /\ RateIdle /\ ProxyIdle /\ DedupIdle /\ PageIdle /\ JobIdle
    /\ AlignIdle
    /\ MoreIdle

SpecAsync == InitAsync /\ [][AsyncNext]_vars

\* job_status has read every key: the view is what it answers.
Answered == pollPc = Len(PollFields) + 1

\* The statuses of the progress channel.
ChannelStatuses == {"queued", "running", "completed", "failed"}

\* C16: every progress snapshot a poller reads has the keys current, total,
\* url and status, with status one of queued, running, completed, failed.
C16_ProgressShapeAndStatus ==
    Answered =>
        /\ DOMAIN view.progress = {"current", "total", "url", "status"}
        /\ view.progress.status \in ChannelStatuses

\* C16, what the code publishes: the status of the job is one of the four,
\* and progress is the dict of two keys scrape_async made or a snapshot of
\* run(), whose status is always 'scraping'.
C16_ProgressAsPublished ==
    Answered =>
        /\ view.status \in ChannelStatuses
        /\ \/ view.progress = InitialProgress
           \/ /\ DOMAIN view.progress = {"current", "total", "url", "status"}
              /\ view.progress.status = "scraping"

\* C17: what a poller is answered is a value the record has had at one
\* moment, under every interleaving of the worker with the poll.
C17_ViewIsSnapshot ==
    Answered => view \in history

\* C17, what the code does give: every key of the answer has a value the
\* worker wrote under that key, and the status read is never later than
\* the rest: an answer with status completed has results and stats.
C17_EachKeyWasWritten ==
    Answered =>
        /\ \A k \in DOMAIN PollFields :
               \E h \in history : view[PollFields[k]] = h[PollFields[k]]
        /\ view.status = "completed" => (view.results # <<>> /\ view.stats # <<>>)

(***************************************************************************)
(* The containers of scrape_items when containerType is 'css': the CSS      *)
(* selector is run on the BeautifulSoup tree, a path expression made from   *)
(* it is run on the lxml tree, and a field of the path dialect is read in   *)
(* the lxml element of the same index (scraper.py 570-626, 657-674).  An    *)
(* element is known by its place in the document; both parsers are taken    *)
(* to see the same elements in the same order.                              *)
(***************************************************************************)
\* The most elements of a page.
MaxDom == 3

\* The elements: a tag, one class or none, an id or none, and whether it
\* has child elements.
Elements ==
    [tag : {"div"}, class : {"item", "item-header"}, id : {""}, children : BOOLEAN]
    \cup [tag : {"div"}, class : {""}, id : {"item"}, children : {TRUE}]
    \cup [tag : {"span"}, class : {"item"}, id : {""}, children : {TRUE}]

\* The container selectors: .item, #item, div and div.item.
ContainerSelectors ==
    {<<".", "item">>, <<"#", "item">>, <<"div">>, <<"div", ".", "item">>}

\* No element: the None of lines 593 and 596.
NoElement == 0

\* Whether string a has b as a substring, for the class names at hand.
HasSubstring(a, b) ==
    \/ a = b
    \/ a = "item-header" /\ b = "item"

\* The places of the set S of elements of d, in document order.
Places(d, S) == SelectSeq([i \in DOMAIN d |-> i], LAMBDA i : i \in S)

\* soup.select(container_selector) (line 574)
soup_select(d, sel) ==
    IF sel[1] = "." THEN Places(d, {i \in DOMAIN d : d[i].class = sel[2]})
    ELSE IF sel[1] = "#" THEN Places(d, {i \in DOMAIN d : d[i].id = sel[2]})
    ELSE IF Len(sel) = 1 THEN Places(d, {i \in DOMAIN d : d[i].tag = sel[1]})
    ELSE Places(d, {i \in DOMAIN d : d[i].tag = sel[1] /\ d[i].class = sel[3]})

\* tree.xpath(xpath_selector) with the expression of lines 578-587:
\* contains(@class, name) for .name, @id = name for #name, and else the
\* selector as it is taken for a tag name, which no element has when the
\* selector is more than a tag.
tree_xpath(d, sel) ==
    IF sel[1] = "." THEN Places(d, {i \in DOMAIN d : HasSubstring(d[i].class, sel[2])})
    ELSE IF sel[1] = "#" THEN Places(d, {i \in DOMAIN d : d[i].id = sel[2]})
    ELSE IF Len(sel) = 1 THEN Places(d, {i \in DOMAIN d : d[i].tag = sel[1]})
    ELSE <<>>

\* PadOrCut without the padding of lines 592-593: the list is only cut.
CutOnly(list, n) ==
    [i \in 1..(IF Len(list) < n THEN Len(list) ELSE n) |-> list[i]]

\* Lines 591-594: the list padded with None, then cut, to the length n.
PadOrCut(list, n) ==
    [i \in 1..n |-> IF i <= Len(list) THEN list[i] ELSE NoElement]

AlignInit ==
    /\ dom \in SeqsUpTo(Elements, MaxDom)
    /\ container_selector \in ContainerSelectors
    /\ containers_bs4 = <<>>
    /\ containers_lxml = <<>>
    /\ located = FALSE
    /\ fieldReads = <<>>

\* Both lists of containers are made (lines 573-596); xpath_raises is the
\* except of lines 595-596.
Locate(xpath_raises) ==
    /\ ~located
    /\ located' = TRUE
    /\ containers_bs4' = soup_select(dom, container_selector)
    /\ containers_lxml' =
           IF xpath_raises
           THEN [i \in 1..Len(soup_select(dom, container_selector)) |-> NoElement]
           ELSE PadOrCut(tree_xpath(dom, container_selector),
                         Len(soup_select(dom, container_selector)))
    /\ UNCHANGED <<dom, container_selector, fieldReads>>

\* A field of the path dialect is read for the container of the next index
\* (lines 613, 621-623, 657-674): in containers_lxml[idx] when that is an
\* element with children, an lxml element without any being false, and
\* else nowhere.
ReadPathField ==
    /\ located
    /\ Len(fieldReads) < Len(containers_bs4)
    /\ LET idx == Len(fieldReads) + 1
           container_lxml == containers_lxml[idx]
       IN  fieldReads' = Append(fieldReads,
               IF container_lxml # NoElement /\ dom[container_lxml].children
               THEN container_lxml
               ELSE NoElement)
    /\ UNCHANGED <<dom, container_selector, containers_bs4, containers_lxml, located>>

AlignNext ==
    \/ \E xpath_raises \in BOOLEAN : Locate(xpath_raises) /\ UNCHANGED notAlign
    \/ ReadPathField /\ UNCHANGED notAlign

InitAlign ==
    AlignInit /\ RetryIdle /\ RateIdle /\ ProxyIdle /\ DedupIdle /\ PageIdle /\ JobIdle
    /\ AsyncIdle
    /\ MoreIdle

SpecAlign == InitAlign /\ [][AlignNext]_vars

\* C20: with a CSS container selector the lxml container of index i is the
\* element the CSS selector matched as container i, or None, and a field of
\* the path dialect read for container i is read in that element or not at
\* all.
C20_ContainersAligned ==
    located =>
        /\ Len(containers_lxml) = Len(containers_bs4)
        /\ \A i \in DOMAIN containers_bs4 :
               containers_lxml[i] \in {containers_bs4[i], NoElement}
        /\ \A i \in DOMAIN fieldReads :
               fieldReads[i] \in {containers_bs4[i], NoElement}

\* C20, the part of it that holds of the code: both lists have the same
\* length, and they are aligned when the selector is an id, a tag or one
\* the translation does not cover.
C20_AlignedUnlessClassSelector ==
    located =>
        /\ Len(containers_lxml) = Len(containers_bs4)
        /\ container_selector[1] # "." =>
               /\ \A i \in DOMAIN containers_bs4 :
                      containers_lxml[i] \in {containers_bs4[i], NoElement}
               /\ \A i \in DOMAIN fieldReads :
                      fieldReads[i] \in {containers_bs4[i], NoElement}

(***************************************************************************)
(* The fields of scrape_items read in the elements of a page (scraper.py   *)
(* 570-716).  A page is the list of its div elements in document order,    *)
(* each with its child elements h2 and a; a container selector of either   *)
(* dialect picks the containers, and each declared field is read in the    *)
(* container of its own dialect.  Path selectors pick elements, so that    *)
(* every lxml container converts to a BeautifulSoup one (lines 602-607).   *)
(***************************************************************************)
\* The most div elements of a page.
MaxItemDom == 2

\* The URL of the page scraped.
PageUrl == "https://x/list"

\* The child elements: h2 with its text, a with its text and its href.
Heading(text) == [tag |-> "h2", text |-> text, href |-> ""]
Anchor(href) == [tag |-> "a", text |-> "go", href |-> href]

\* The children an element has, in document order.
KidLists ==
    {h \o a : h \in {<<>>, <<Heading(" t "), Heading("u")>>},
              a \in {<<>>, <<Anchor("/p")>>, <<Anchor("http://x/p")>>}}

\* The div elements of a page.
ItemElements ==
    {[tag |-> "div", class |-> c, id |-> "", children |-> (k # <<>>), kids |-> k] :
        c \in {"item", "item-header"}, k \in KidLists}

\* The container selectors of the CSS dialect, .item and div.item, and of
\* the path dialect, //div[@class='item'].
CssContainerSelectors == {<<".", "item">>, <<"div", ".", "item">>}
PathContainerSelectors == {<<"//", "div", "@class", "item">>}

\* tree.xpath(container_selector) of line 598 for //tag[@class='name'].
tree_xpath_native(d, sel) ==
    Places(d, {i \in DOMAIN d : d[i].tag = sel[2] /\ d[i].class = sel[4]})

\* The declared fields: title is the text of h2, link is a, with the
\* attribute href or without one (lines 630-634).
TitleFields ==
    [name : {"title"}, selector : {"h2"}, type : {"css", "xpath"}, required : {FALSE},
     attribute : {None}]
LinkFields ==
    [name : {"link"}, selector : {"a"}, type : {"css", "xpath"}, required : {FALSE},
     attribute : {None, "href"}]
ItemFieldLists ==
    {<<f>> : f \in TitleFields \cup LinkFields}
    \cup {<<t, l>> : t \in TitleFields, l \in LinkFields}

\* container.select(selector), container.xpath('.//' + selector): the
\* children with that tag, in document order (lines 642, 661-668).
Matches(el, selector) == SelectSeq(el.kids, LAMBDA kid : kid.tag = selector)

\* str.strip() and get_text(strip=True) on the texts at hand.
strip(text) == IF text = " t " THEN "t" ELSE text

\* value.startswith(('http://', 'https://')) on the values at hand (line 692).
StartsWithHttp(value) == value \in {"http://x/p", "https://x/p", "https://x/go"}

\* urljoin(url, value) for the page URL and the relative values at hand
\* (line 693).
urljoin(url, value) ==
    IF value = "/p" THEN "https://x/p"
    ELSE IF value = "go" THEN "https://x/go"
    ELSE value

\* Lines 691-693: a relative value of a link attribute is made absolute.
ResolveLink(attribute, value) ==
    IF attribute \in {"href", "src", "data-src"} /\ value # ""
    THEN IF ~StartsWithHttp(value) THEN urljoin(PageUrl, value) ELSE value
    ELSE value

\* containers[idx] if idx < len(containers) else None (lines 620-626), idx
\* counted from 1 here.
SlotAt(list, idx) == IF idx <= Len(list) THEN list[idx] ELSE NoElement

\* The CSS branch of lines 640-654: the value of the field in the
\* BeautifulSoup container.
css_value(d, container_bs4, field) ==
    LET elements == IF container_bs4 # NoElement
                    THEN Matches(d[container_bs4], field.selector)
                    ELSE <<>>
    IN  IF elements # <<>>
        THEN IF field.attribute # None
             THEN elements[1].href
             ELSE strip(elements[1].text)
        ELSE ""

\* The path branch of lines 655-689: the value of the field in the lxml
\* container, which is searched when it is true, that is, when it has
\* children; the attribute of the field is not looked at.
xpath_value(d, container_lxml, field) ==
    LET elements == IF container_lxml # NoElement /\ d[container_lxml].children
                    THEN Matches(d[container_lxml], field.selector)
                    ELSE <<>>
    IN  IF elements # <<>> THEN strip(elements[1].text) ELSE ""

\* Lines 639-695 for one field: the slot it is read in and its value.
FieldRead(idx, d, field, container_bs4, container_lxml) ==
    [idx |-> idx, field |-> field,
     slot |-> IF field.type = "css" THEN container_bs4 ELSE container_lxml,
     value |-> ResolveLink(field.attribute,
                           IF field.type = "css"
                           THEN css_value(d, container_bs4, field)
                           ELSE xpath_value(d, container_lxml, field))]

FieldInit ==
    /\ dom \in SeqsUpTo(ItemElements, MaxItemDom)
    /\ container_type \in {"css", "xpath"}
    /\ container_selector \in IF container_type = "css" THEN CssContainerSelectors
                                                       ELSE PathContainerSelectors
    /\ containers_bs4 = <<>>
    /\ containers_lxml = <<>>
    /\ located = FALSE
    /\ fieldReads = <<>>
    /\ item_fields \in ItemFieldLists
    /\ readLog = <<>>
    /\ item_list = <<>>

\* Lines 597-607: the containers of a path selector, and each of them
\* parsed again as a BeautifulSoup container.
LocateByPath ==
    /\ ~located
    /\ container_type = "xpath"
    /\ located' = TRUE
    /\ containers_lxml' = tree_xpath_native(dom, container_selector)
    /\ containers_bs4' = tree_xpath_native(dom, container_selector)
    /\ UNCHANGED <<dom, container_selector, fieldReads>>

\* num_containers of line 609.
NumContainers ==
    IF container_type = "css" THEN Len(containers_bs4) ELSE Len(containers_lxml)

\* How many containers the loop of line 613 has finished.
ContainersDone == IF readLog = <<>> THEN 0 ELSE readLog[Len(readLog)].idx

\* One pass of the loop over the containers (lines 613-716).
ScrapeContainer ==
    /\ located
    /\ ContainersDone < NumContainers
    /\ LET idx == ContainersDone + 1
           container_bs4 == SlotAt(containers_bs4, idx)
           container_lxml == SlotAt(containers_lxml, idx)
           reads == [k \in DOMAIN item_fields |->
                        FieldRead(idx, dom, item_fields[k], container_bs4, container_lxml)]
           container == [n \in {item_fields[k].name : k \in DOMAIN item_fields} |->
                            reads[CHOOSE k \in DOMAIN item_fields :
                                      item_fields[k].name = n].value]
           item_data == clean_data(BuildItem(idx - 1, PageUrl, 0, container, item_fields))
       IN  /\ readLog' = readLog \o reads
           /\ item_list' = IF is_duplicate(incremental, data_hash, item_data).result
                           THEN item_list
                           ELSE Append(item_list, item_data)
    /\ UNCHANGED <<container_type, item_fields>>

notField == <<retryVars, rateVars, proxyVars, dedupVars, pageVars, jobVars, asyncVars,
              submitVars, fetchVars>>

FieldNext ==
    \/ \E xpath_raises \in BOOLEAN :
           /\ container_type = "css"
           /\ Locate(xpath_raises)
           /\ UNCHANGED <<fieldVars, notField>>
    \/ LocateByPath /\ UNCHANGED <<fieldVars, notField>>
    \/ ScrapeContainer /\ UNCHANGED <<alignVars, notField>>

InitField ==
    FieldInit /\ RetryIdle /\ RateIdle /\ ProxyIdle /\ DedupIdle /\ PageIdle /\ JobIdle
    /\ AsyncIdle /\ SubmitIdle /\ FetchIdle

SpecField == InitField /\ [][FieldNext]_vars

\* The value the claim gives a field read in the element of a slot.
ValueByContract(d, read) ==
    LET elements == IF read.slot = NoElement THEN <<>>
                    ELSE Matches(d[read.slot], read.field.selector)
    IN  IF elements = <<>> THEN ""
        ELSE IF read.field.attribute # None
        THEN LET v == elements[1].href
             IN  IF v \in {"", "http://x/p"} THEN v ELSE "https://x/p"
        ELSE strip(elements[1].text)

\* C21: a field of either dialect read in a container has as its value the
\* named attribute of the first matching element when attribute is set (a
\* relative link made absolute), the trimmed text of the first matching
\* element when it is not, and '' when nothing matches.
C21_FieldValueByDialect ==
    \A i \in DOMAIN readLog : readLog[i].value = ValueByContract(dom, readLog[i])

\* C21, the part of it that holds of the code: the fields of the CSS
\* dialect, and those of the path dialect that name no attribute.
C21_CssOrTextFieldValue ==
    \A i \in DOMAIN readLog :
        (readLog[i].field.type = "css" \/ readLog[i].field.attribute = None) =>
            readLog[i].value = ValueByContract(dom, readLog[i])

\* The elements the container selector matches, in its own dialect.
NativeContainers ==
    IF container_type = "css" THEN soup_select(dom, container_selector)
    ELSE tree_xpath_native(dom, container_selector)

\* Every container holds a match for every declared field.
EveryFieldMatches ==
    \A i \in DOMAIN NativeContainers, k \in DOMAIN item_fields :
        Matches(dom[NativeContainers[i]], item_fields[k].selector) # <<>>

\* The record of the container at place p of the page: the field f is what
\* the first match of its selector in that container gives.
RecordOfContainer(record, p) ==
    \A k \in DOMAIN item_fields :
        LET f == item_fields[k]
            first == Matches(dom[p], f.selector)[1]
        IN  /\ f.name \in KeysOf(record)
            /\ IF f.attribute = "href"
               THEN StartsWithHttp(ValueOf(record, f.name))
               ELSE /\ ValueOf(record, f.name) # ""
                    /\ ValueOf(record, f.name) = strip(first.text)

\* C22: when the container selector matches n elements and each of them
\* holds a match for every declared field, scrape_items (incremental off)
\* yields n records in document order with item_index 1..n, each with the
\* non-empty text of its container for a text field and an absolute URL for
\* a href field.
C22_OneRecordPerContainer ==
    (located /\ ContainersDone = NumContainers /\ EveryFieldMatches /\ ~incremental) =>
        /\ Len(item_list) = Len(NativeContainers)
        /\ \A i \in DOMAIN item_list :
               /\ ValueOf(item_list[i], "item_index") = i
               /\ i \in DOMAIN NativeContainers
               /\ RecordOfContainer(item_list[i], NativeContainers[i])

\* C22, the part of it that holds of the code: the claim for declared
\* fields of the CSS dialect.
C22_OneRecordPerContainerCssFields ==
    (\A k \in DOMAIN item_fields : item_fields[k].type = "css") =>
        C22_OneRecordPerContainer

\* What the translation of a CSS container selector gives, padded or cut to
\* the length of the native list, or all empty.
TranslatedSlots(empty) ==
    [i \in DOMAIN NativeContainers |->
        IF ~empty /\ i <= Len(tree_xpath(dom, container_selector))
        THEN tree_xpath(dom, container_selector)[i]
        ELSE NoElement]

\* C27: once the containers are located both lists are as long as the list
\* of the containers the selector finds in its own dialect: the translation
\* of a CSS selector is cut when it matches more, padded with empty slots
\* when it matches fewer, and all empty slots when it raises; and a field
\* read in an empty slot has the value ''.
C27_ListsAlignedInLength ==
    /\ located =>
           /\ Len(containers_bs4) = Len(NativeContainers)
           /\ Len(containers_lxml) = Len(NativeContainers)
           /\ container_type = "css" =>
                  containers_lxml \in {TranslatedSlots(FALSE), TranslatedSlots(TRUE)}
    /\ \A i \in DOMAIN readLog : readLog[i].slot = NoElement => readLog[i].value = ""

\* div.item, which the translation takes for a tag name no element has:
\* the lxml list is padded and a path field read in the empty slot is ''
\* although its container holds a match.
C27_Witness ==
    /\ located
    /\ container_type = "css"
    /\ Len(tree_xpath(dom, container_selector)) < Len(containers_bs4)
    /\ Len(containers_lxml) = Len(containers_bs4)
    /\ \E i \in DOMAIN readLog :
           /\ readLog[i].field.type = "xpath"
           /\ readLog[i].slot = NoElement
           /\ readLog[i].value = ""
           /\ Matches(dom[containers_bs4[readLog[i].idx]], readLog[i].field.selector) # <<>>

(***************************************************************************)
(* The request handlers scrape and scrape_async of app.py with the worker  *)
(* thread run_scraper, and job_status polling the registry: how a posted   *)
(* configuration is checked and which statuses its job goes through.       *)
(***************************************************************************)
\* What request.json holds under a key the handlers test: the key is
\* missing, its value is empty ('' or []), or it is given.
KeyStates == {"missing", "empty", "given"}

\* The configurations posted: url, selectors and itemScraping.enabled.
Requests == [url : KeyStates, selectors : KeyStates, item_mode : BOOLEAN]

\* `not config.get(key)` (lines 91, 95, 180)
NotGiven(key_state) == key_state # "given"

SubmitInit ==
    /\ route \in {"sync", "async"}
    /\ request \in Requests
    /\ registry = <<>>
    /\ statusLog = <<>>
    /\ response = 0
    /\ submitPc = "received"
    /\ polled = <<>>

\* active_jobs[job_id]['status'] = status, in a new record or an old one.
SetStatus(status) ==
    /\ registry' = <<status>>
    /\ statusLog' = Append(statusLog, status)

\* The handler answers 400 (lines 92-101, 181-185).
Reject ==
    /\ response' = 400
    /\ submitPc' = "end"
    /\ UNCHANGED <<registry, statusLog>>

\* The except of scrape (lines 146-167): the job, if there is one, is
\* marked failed and the handler answers 500.
ScrapeExcept ==
    /\ SetStatus("failed")
    /\ response' = 500
    /\ submitPc' = "end"

\* scrape checks the configuration and registers the job (lines 88-108).
ScrapeAdmit ==
    /\ route = "sync"
    /\ submitPc = "received"
    /\ IF NotGiven(request.url) \/ NotGiven(request.selectors)
       THEN Reject
       ELSE /\ SetStatus("running")
            /\ submitPc' = "run"
            /\ UNCHANGED response
    /\ UNCHANGED <<route, request, polled>>

\* scrape builds the scraper, runs it, writes the history and marks the job
\* completed (lines 110-129); an exception of run() goes to the except.
ScrapeRun(ok) ==
    /\ route = "sync"
    /\ submitPc = "run"
    /\ IF ok
       THEN /\ SetStatus("completed")
            /\ submitPc' = "respond"
            /\ UNCHANGED response
       ELSE ScrapeExcept
    /\ UNCHANGED <<route, request, polled>>

\* scrape builds its response (lines 131-144), inside the same try.
ScrapeRespond(ok) ==
    /\ route = "sync"
    /\ submitPc = "respond"
    /\ IF ok
       THEN /\ response' = 200
            /\ submitPc' = "end"
            /\ UNCHANGED <<registry, statusLog>>
       ELSE ScrapeExcept
    /\ UNCHANGED <<route, request, polled>>

\* scrape_async checks the configuration and registers the job (lines
\* 177-192).
AsyncAdmit ==
    /\ route = "async"
    /\ submitPc = "received"
    /\ IF NotGiven(request.url)
       THEN Reject
       ELSE /\ SetStatus("queued")
            /\ submitPc' = "spawn"
            /\ UNCHANGED response
    /\ UNCHANGED <<route, request, polled>>

\* scrape_async starts the worker thread and answers (lines 227-236).
AsyncSpawn ==
    /\ route = "async"
    /\ submitPc = "spawn"
    /\ response' = 200
    /\ submitPc' = "worker"
    /\ UNCHANGED <<route, request, registry, statusLog, polled>>

\* run_scraper marks the job running (line 197).
WorkerBegins ==
    /\ submitPc = "worker"
    /\ SetStatus("running")
    /\ submitPc' = "running"
    /\ UNCHANGED <<route, request, response, polled>>

\* run_scraper after run(): the update of lines 209-215 and the history,
\* whose errors save_to_history keeps to itself (lines 575-599), or the
\* update of the except (lines 219-224).
WorkerEnds(ok) ==
    /\ submitPc = "running"
    /\ SetStatus(IF ok THEN "completed" ELSE "failed")
    /\ submitPc' = "end"
    /\ UNCHANGED <<route, request, response, polled>>

\* job_status answers with the status of a registered job (lines 244-264).
JobStatusPoll ==
    /\ registry # <<>>
    /\ Len(polled) < MaxPolls
    /\ polled' = Append(polled, registry[1])
    /\ UNCHANGED <<route, request, registry, statusLog, response, submitPc>>

notSubmit == <<retryVars, rateVars, proxyVars, dedupVars, pageVars, jobVars, asyncVars,
               alignVars, fieldVars, fetchVars>>

SubmitNext ==
    \/ ScrapeAdmit /\ UNCHANGED notSubmit
    \/ \E ok \in BOOLEAN : ScrapeRun(ok) /\ UNCHANGED notSubmit
    \/ \E ok \in BOOLEAN : ScrapeRespond(ok) /\ UNCHANGED notSubmit
    \/ AsyncAdmit /\ UNCHANGED notSubmit
    \/ AsyncSpawn /\ UNCHANGED notSubmit
    \/ WorkerBegins /\ UNCHANGED notSubmit
    \/ \E ok \in BOOLEAN : WorkerEnds(ok) /\ UNCHANGED notSubmit
    \/ JobStatusPoll /\ UNCHANGED notSubmit

InitSubmit ==
    SubmitInit /\ RetryIdle /\ RateIdle /\ ProxyIdle /\ DedupIdle /\ PageIdle /\ JobIdle
    /\ AsyncIdle /\ AlignIdle /\ FieldIdle /\ FetchIdle

SpecSubmit == InitSubmit /\ [][SubmitNext]_vars

\* The configurations the claim has rejected: no url, or page mode with no
\* selector.
Invalid(config) ==
    \/ NotGiven(config.url)
    \/ ~config.item_mode /\ NotGiven(config.selectors)

\* C23: on both endpoints a configuration without url, or in page mode
\* without selectors, is answered with 400 and no job is ever registered
\* or run for it; any other configuration, an item-mode one without
\* page-level selectors among them, is not answered with 400.
C23_RejectedExactlyWhenInvalid ==
    submitPc # "received" =>
        IF Invalid(request)
        THEN response = 400 /\ statusLog = <<>>
        ELSE response # 400

\* C23, the part of it that holds of the code: a configuration without url
\* is answered with 400 on both endpoints before a job is registered, and a
\* configuration with url and selectors is never answered with 400.
C23_MissingUrlRejected ==
    submitPc # "received" =>
        /\ NotGiven(request.url) => (response = 400 /\ statusLog = <<>>)
        /\ (~NotGiven(request.url) /\ ~NotGiven(request.selectors)) => response # 400

\* The place of a status on the way queued -> running -> completed | failed.
StatusRank(status) ==
    IF status = "queued" THEN 1 ELSE IF status = "running" THEN 2 ELSE 3

\* C29: the status of a job in the registry only moves forward along
\* queued -> running -> (completed | failed): no status is followed by an
\* earlier one, and completed or failed is followed by no other status.
C29_StatusOnlyMovesForward ==
    \A i, j \in DOMAIN statusLog :
        i < j =>
            /\ StatusRank(statusLog[i]) <= StatusRank(statusLog[j])
            /\ StatusRank(statusLog[i]) = 3 => statusLog[j] = statusLog[i]

\* C29, the part of it that holds of the code: the job of scrape_async.
C29_AsyncStatusOnlyMovesForward ==
    route = "async" => C29_StatusOnlyMovesForward

(***************************************************************************)
(* WebScraper.get_page_content: the rendering backend, when it is enabled, *)
(* and else, or when it raises, the plain path, on which RetryHandler      *)
(* runs make_request, and make_request calls RateLimiter.wait(), takes a   *)
(* proxy from ProxyManager and issues the GET (scraper.py 416-444).        *)
(***************************************************************************)
\* The most calls of get_page_content on one scraper.
MaxFetches == 2

\* The lists of proxies of a scraper here.
FetchProxyPools == {<<>>, <<"p1", "p2">>, <<"p1", "p2", "p1">>}

\* What page.content() or driver.page_source gives.
RenderedHtml == "rendered"

\* The job's rendering backend after init_js_engine: disabled, or enabled
\* with its handles set (lines 377-400).
EngineInit ==
    /\ use_js_rendering \in BOOLEAN
    /\ js_engine \in {"playwright", "selenium"}
    /\ acquired = IF ~use_js_rendering THEN {}
                  ELSE IF js_engine = "playwright" THEN {"playwright", "browser", "page"}
                  ELSE {"driver"}

\* A scraper before its first fetch (lines 246-288).
FetchInit ==
    /\ max_retries \in 0..MaxRetriesBound
    /\ base_delay = 1
    /\ attempt = 0
    /\ last_exception = None
    /\ opLog = <<>>
    /\ sleeps = <<>>
    /\ outcome = [kind |-> "idle", val |-> None, err |-> None]
    /\ RateInit
    /\ proxies \in FetchProxyPools
    /\ proxy_health = [p \in Range(proxies) |->
                          [success |-> 0, failures |-> 0, last_check |-> None]]
    /\ current_proxy_index = 0
    /\ proxyLog = <<>>
    /\ healthiest = None
    /\ EngineInit
    /\ fetchPc = "call"
    /\ callLog = <<>>
    /\ fetches = <<>>
    /\ fetchMark = <<>>

\* What get_page_content leaves alone of the job.
fetchJobRest == <<jobUrls, jobIdx, jobPhase, containers, contIdx, items, results, stats,
                  clock, field_selectors, item_mode, progress_callback, progressLog,
                  fetchLog, js_engine, acquired, closed, closeFails, jobError, jobStatus,
                  jobResults>>

\* Whether the branch of lines 420 or 423 is taken.
RenderPossible ==
    /\ use_js_rendering
    /\ \/ js_engine = "playwright" /\ "page" \in acquired
       \/ js_engine = "selenium" /\ "driver" \in acquired

\* retry_handler.execute(make_request) begins (lines 441, 114): rendered
\* says how the call came to the plain path.
EnterPlain(rendered) ==
    /\ fetchPc' = "plain"
    /\ fetchMark' = [rendered |-> rendered, cursor |-> current_proxy_index,
                     waits |-> Len(waitSleeps)]
    /\ attempt' = 0
    /\ last_exception' = None
    /\ opLog' = <<>>
    /\ sleeps' = <<>>
    /\ outcome' = [kind |-> "running", val |-> None, err |-> None]
    /\ UNCHANGED <<max_retries, base_delay, callLog, fetches>>

\* The backend renders the page and its content is returned (lines 419-426).
RenderReturns ==
    /\ fetchPc = "call"
    /\ Len(fetches) < MaxFetches
    /\ RenderPossible
    /\ fetches' = Append(fetches, [rendered |-> "ok", path |-> "render", ops |-> <<>>,
                                   result |-> RenderedHtml, waits |-> 0,
                                   cursor_from |-> current_proxy_index,
                                   cursor_to |-> current_proxy_index])
    /\ UNCHANGED <<fetchPc, callLog, fetchMark, use_js_rendering, retryVars>>

\* RenderRaises with the error of the backend ending the fetch: None is
\* returned and the plain path is not taken.
RenderRaisesFailsFetch ==
    /\ fetchPc = "call"
    /\ Len(fetches) < MaxFetches
    /\ RenderPossible
    /\ fetches' = Append(fetches, [rendered |-> "raised", path |-> "render", ops |-> <<>>,
                                   result |-> None, waits |-> 0,
                                   cursor_from |-> current_proxy_index,
                                   cursor_to |-> current_proxy_index])
    /\ UNCHANGED <<fetchPc, callLog, fetchMark, use_js_rendering, retryVars>>

\* The backend raises: the except of lines 427-430 logs it and the call goes
\* on to the regular request.
RenderRaises ==
    /\ fetchPc = "call"
    /\ Len(fetches) < MaxFetches
    /\ RenderPossible
    /\ EnterPlain("raised")
    /\ UNCHANGED use_js_rendering

\* Rendering is not enabled: the regular request (lines 418, 432).
PlainCall ==
    /\ fetchPc = "call"
    /\ Len(fetches) < MaxFetches
    /\ ~RenderPossible
    /\ EnterPlain("off")
    /\ UNCHANGED use_js_rendering

\* make_request with the proxy taken on the first attempt only.
make_request_proxy_once(over) ==
    /\ fetchPc = "plain"
    /\ wait(over)
    /\ IF attempt = 0
       THEN /\ get_proxy
            /\ callLog' = callLog \o <<"wait", "get_proxy", "get">>
       ELSE /\ UNCHANGED proxyVars
            /\ callLog' = callLog \o <<"wait", "get">>
    /\ UNCHANGED <<fetchPc, fetches, fetchMark, use_js_rendering>>

\* make_request up to the GET (lines 433-436): the limiter, then the proxy.
make_request(over) ==
    /\ fetchPc = "plain"
    /\ wait(over)
    /\ get_proxy
    /\ callLog' = callLog \o <<"wait", "get_proxy", "get">>
    /\ UNCHANGED <<fetchPc, fetches, fetchMark, use_js_rendering>>

\* An attempt of execute whose GET gives the page (lines 118, 436-438).
RequestSucceeds(over, v) == make_request(over) /\ AttemptReturns(v)

\* An attempt of execute whose GET, or raise_for_status, raises (lines
\* 119-126, 436-437).
RequestFails(over, e) == make_request(over) /\ AttemptRaises(e)

\* The attempts are used up and execute raises (line 128).
RequestsExhausted ==
    /\ fetchPc = "plain"
    /\ RaiseLast
    /\ UNCHANGED <<fetchVars, use_js_rendering, rateVars, proxyVars>>

\* get_page_content returns what execute returned, or None when execute
\* raised (lines 440-444).
EndCall ==
    /\ fetchPc = "plain"
    /\ ExecuteEnded
    /\ fetches' = Append(fetches,
           [rendered |-> fetchMark.rendered, path |-> "plain", ops |-> opLog,
            result |-> IF outcome.kind = "return" THEN outcome.val ELSE None,
            waits |-> Len(waitSleeps) - fetchMark.waits,
            cursor_from |-> fetchMark.cursor, cursor_to |-> current_proxy_index])
    /\ fetchPc' = "call"
    /\ UNCHANGED <<callLog, fetchMark, use_js_rendering, retryVars, rateVars, proxyVars>>

notFetch == <<dedupVars, pageVars, fetchJobRest, asyncVars, alignVars, fieldVars,
              submitVars>>

FetchNext ==
    \/ RenderReturns /\ UNCHANGED <<rateVars, proxyVars, notFetch>>
    \/ RenderRaises /\ UNCHANGED <<rateVars, proxyVars, notFetch>>
    \/ PlainCall /\ UNCHANGED <<rateVars, proxyVars, notFetch>>
    \/ \E over \in {0, MaxOversleep}, v \in {"html1"} :
           RequestSucceeds(over, v) /\ UNCHANGED notFetch
    \/ \E over \in {0, MaxOversleep}, e \in {"Timeout"} :
           RequestFails(over, e) /\ UNCHANGED notFetch
    \/ RequestsExhausted /\ UNCHANGED notFetch
    \/ EndCall /\ UNCHANGED notFetch

InitFetch ==
    FetchInit /\ DedupIdle /\ PageIdle /\ JobIdleButEngine /\ AsyncIdle /\ AlignIdle
    /\ FieldIdle /\ SubmitIdle

SpecFetch == InitFetch /\ [][FetchNext]_vars

\* What the plain path of a call gave: the value of the attempt that
\* succeeded, or None when none did.
PlainResult(ops) ==
    IF ops # <<>> /\ ops[Len(ops)].ok THEN ops[Len(ops)].val ELSE None

\* C24: when the rendering backend raises on a URL, get_page_content goes
\* on to the plain path for that URL, with its attempts up to max_retries,
\* and returns what that path gives; rendering stays enabled, and a later
\* URL is rendered again.
C24_RenderErrorFallsBackToPlain ==
    /\ \A i \in DOMAIN fetches :
           fetches[i].rendered = "raised" =>
               /\ fetches[i].path = "plain"
               /\ max_retries >= 1 => Len(fetches[i].ops) >= 1
               /\ fetches[i].result = PlainResult(fetches[i].ops)
               /\ use_js_rendering
               /\ \A j \in DOMAIN fetches : j > i => fetches[j].rendered # "off"
    /\ (fetchPc = "plain" /\ fetchMark.rendered = "raised") => use_js_rendering

\* The backend raised on the first URL, whose page the plain path then
\* fetched, and rendered the second.
C24_Witness ==
    /\ Len(fetches) = 2
    /\ fetches[1].rendered = "raised"
    /\ fetches[1].path = "plain"
    /\ fetches[1].result = "html1"
    /\ fetches[2].rendered = "ok"
    /\ use_js_rendering

\* The place the proxy cursor has after a calls of get_proxy from place c.
CursorAfter(c, a) == IF Len(proxies) = 0 THEN c ELSE (c + a) % Len(proxies)

\* C25: on the plain path every attempt of a fetch, failed or not, first
\* calls RateLimiter.wait() and then get_proxy(): a fetch of a attempts
\* makes a calls of wait() and moves the proxy cursor a places on, modulo
\* the size of the pool, whether it succeeds or fails.
C25_EveryAttemptWaitsAndTakesProxy ==
    /\ \A i \in DOMAIN fetches :
           fetches[i].path = "plain" =>
               /\ fetches[i].waits = Len(fetches[i].ops)
               /\ fetches[i].cursor_to =
                      CursorAfter(fetches[i].cursor_from, Len(fetches[i].ops))
    /\ fetchPc = "plain" =>
           /\ Len(waitSleeps) - fetchMark.waits = Len(opLog)
           /\ current_proxy_index = CursorAfter(fetchMark.cursor, Len(opLog))
    /\ Len(proxyLog) = Len(waitSleeps)
    /\ \A i \in DOMAIN callLog :
           callLog[i] = <<"wait", "get_proxy", "get">>[((i - 1) % 3) + 1]
    /\ Len(callLog) = 3 * Len(waitSleeps)

\* A fetch that failed after three attempts on a pool of two proxies: three
\* calls of wait() and the cursor moved from 0 to 1.
C25_Witness ==
    /\ Len(fetches) >= 1
    /\ fetches[1].path = "plain"
    /\ Len(fetches[1].ops) = 3
    /\ fetches[1].result = None
    /\ Len(proxies) = 2
    /\ fetches[1].waits = 3
    /\ fetches[1].cursor_from = 0
    /\ fetches[1].cursor_to = 1

(***************************************************************************)
(* run() with the attempts of each fetch: for every URL RetryHandler runs   *)
(* the GET up to max_retries times before scrape_items or scrape_page goes  *)
(* on with what it gave or with None (scraper.py 112-128, 440-444, 552-555, *)
(* 769-772, 957-1041).  Rendering is off; every attempt, sleep and close    *)
(* returns, so that a step that can be taken is taken in the end.           *)
(***************************************************************************)
\* What is found on a page that was fetched: at most one container.
TermContents == {c \in PageContents : Len(c.conts) <= 1}
TermRegularContents == {c \in RegularContents : Len(c.values) <= 1}

TermInit ==
    /\ JobStart
    /\ jobUrls \in JobUrlLists
    /\ field_selectors = <<[name |-> "title", selector |-> "h2", type |-> "css",
                            required |-> FALSE]>>
    /\ item_mode \in BOOLEAN
    /\ incremental = FALSE
    /\ progress_callback = TRUE
    /\ use_js_rendering = FALSE
    /\ js_engine = "playwright"
    /\ container_selector = <<".", "item">>
    /\ max_retries \in 0..MaxRetriesBound
    /\ base_delay = 1
    /\ attempt = 0
    /\ last_exception = None
    /\ opLog = <<>>
    /\ sleeps = <<>>
    /\ outcome = [kind |-> "idle", val |-> None, err |-> None]
    /\ fetches = <<>>

\* get_page_content hands make_request to execute (lines 441, 114).
BeginFetch ==
    /\ jobPhase = "page"
    /\ outcome.kind = "idle"
    /\ attempt' = 0
    /\ last_exception' = None
    /\ opLog' = <<>>
    /\ sleeps' = <<>>
    /\ outcome' = [kind |-> "running", val |-> None, err |-> None]
    /\ UNCHANGED <<max_retries, base_delay, fetches>>

\* execute has ended and get_page_content returns: the content is None
\* exactly when execute raised (lines 440-444, 552, 769).
FetchEnds(kind) ==
    /\ ExecuteEnded
    /\ (kind = "none") <=> (outcome.kind = "raise")
    /\ fetches' = Append(fetches, [url |-> jobUrls[jobIdx + 1], attempts |-> Len(opLog)])
    /\ outcome' = [kind |-> "idle", val |-> None, err |-> None]
    /\ UNCHANGED <<max_retries, base_delay, attempt, last_exception, opLog, sleeps>>

notTerm == <<rateVars, proxyVars, pageVars, asyncVars, alignVars, fieldVars, submitVars,
             fetchPc, callLog, fetchMark>>
termJobOnly == <<retryVars, fetches, notTerm>>
termFetchOnly == <<jobVars, dedupVars, notTerm>>

\* The steps of a job whose statements all return.
TermRun ==
    \/ StartRun({}) /\ UNCHANGED termJobOnly
    \/ \E ok \in BOOLEAN : Setup(ok) /\ UNCHANGED termJobOnly
    \/ SkipEmpty /\ UNCHANGED termJobOnly
    \/ NextUrl /\ UNCHANGED termJobOnly
    \/ BeginFetch /\ UNCHANGED termFetchOnly
    \/ \E v \in {"html1"} :
           jobPhase = "page" /\ AttemptReturns(v) /\ UNCHANGED <<fetches, termFetchOnly>>
    \/ \E e \in {"Timeout"} :
           jobPhase = "page" /\ AttemptRaises(e) /\ UNCHANGED <<fetches, termFetchOnly>>
    \/ jobPhase = "page" /\ RaiseLast /\ UNCHANGED <<fetches, termFetchOnly>>
    \/ \E content \in TermContents :
           BeginPage(content) /\ FetchEnds(content.kind) /\ UNCHANGED notTerm
    \/ \E elapsed \in 0..1 : ProcessContainer(elapsed) /\ UNCHANGED termJobOnly
    \/ EndPage /\ UNCHANGED termJobOnly
    \/ \E content \in TermRegularContents, elapsed \in 0..1 :
           ScrapeRegular(content, elapsed) /\ FetchEnds(content.kind) /\ UNCHANGED notTerm
    \/ \E ok \in BOOLEAN : SaveResults(ok) /\ UNCHANGED termJobOnly
    \/ Release({}) /\ UNCHANGED termJobOnly
    \/ Report /\ UNCHANGED termJobOnly

\* A statement of the loop may raise instead; nothing makes it do so.
TermNext ==
    \/ TermRun
    \/ LoopRaises /\ UNCHANGED termJobOnly

InitTerm ==
    TermInit /\ RateIdle /\ ProxyIdle /\ PageIdle /\ AsyncIdle /\ AlignIdleButSelector
    /\ FieldIdle /\ SubmitIdle /\ fetchPc = "idle" /\ callLog = <<>> /\ fetchMark = <<>>

SpecTerm == InitTerm /\ [][TermNext]_vars /\ WF_vars(TermRun)

\* No fetch has taken more than max_retries attempts, and the URLs fetched
\* are the first of the list that are not empty, each once and in order.
BoundedAndOnce ==
    /\ \A i \in DOMAIN fetches : fetches[i].attempts <= max_retries
    /\ Len(opLog) <= max_retries
    /\ Len(fetches) <= Len(NonEmpty(jobUrls))
    /\ \A i \in DOMAIN fetches : fetches[i].url = NonEmpty(jobUrls)[i]

\* run() has gone through its finally and the worker has recorded the end.
JobEnded ==
    /\ jobPhase = "done"
    /\ stats.end_time # <<>>
    /\ jobStatus \in {"completed", "failed"}

\* C30: every job that was started terminates: whatever the attempts of its
\* fetches come to, run() makes at most max_retries GET attempts per URL,
\* visits each URL once, and in the end goes through its final block, where
\* end_time is set, and the job reaches the status completed or failed.
C30_EveryJobTerminates == []BoundedAndOnce /\ <>JobEnded

\* A job of two URLs that ended completed: every attempt of the first fetch
\* failed, three of them, and the second page was fetched.
C30_Witness ==
    /\ JobEnded
    /\ jobStatus = "completed"
    /\ max_retries = 3
    /\ Len(fetches) = 2
    /\ fetches[1].attempts = 3
    /\ fetchLog[1].outcome = "none"
    /\ fetchLog[2].outcome = "html"

====
